---- MODULE Spec2Model ----
(***************************************************************************)
(* Verification model of the network simplification and clustering stages *)
(* of pypsa-eur-atom: scripts/simplify_network.py (voltage unification,   *)
(* link folding, stub removal, busmap composition) and the cluster-count  *)
(* allocator distribute_clusters of scripts/cluster_network.py.           *)
(*                                                                         *)
(* Tables of the pypsa.Network (n.buses, n.lines, ...) are functions from  *)
(* the index (the component name) to a record of the columns the code      *)
(* reads or writes.  A pandas Series used as a busmap is a function from   *)
(* its index to its values; a value that .map() cannot find is NaN.        *)
(***************************************************************************)
EXTENDS Integers, Sequences, FiniteSets, TLC

VARIABLES
    pc,                  \* the statement of simplify_network.py's __main__ to run next
    n_in,                \* networks/elec.nc as loaded at line 359
    n,                   \* the pypsa.Network n, mutated in place by every step
    trafo_map,           \* busmap returned by simplify_network_to_380
    simplify_links_map,  \* busmap returned by simplify_links
    stub_map,            \* busmap returned by remove_stubs
    busmap_s,            \* the end-to-end busmap written to busmap_elec_s.csv
    stubs,               \* loop state of busmap_by_stubs: graph nodes, busmap, passes
    dc,                  \* state of one call of distribute_clusters
    bm,                  \* state of one call of busmap_for_n_clusters
    out,                 \* the output files written so far
    sr,                  \* state of script_runner.py's __main__
    cl                   \* state of cluster_network.py's __main__

vars == <<pc, n_in, n, trafo_map, simplify_links_map, stub_map, busmap_s, stubs, dc, bm, out, sr, cl>>

simplifyVars == <<pc, n_in, n, trafo_map, simplify_links_map, stub_map, busmap_s, stubs, out>>

-----------------------------------------------------------------------------
(* Generic helpers *)

NaN == "NaN"

Range(f) == {f[k] : k \in DOMAIN f}

Restrict(f, S) == [k \in S |-> f[k]]

Identity(S) == [k \in S |-> k]

RECURSIVE SumOver(_, _)
SumOver(S, f) ==
    IF S = {} THEN 0
    ELSE LET k == CHOOSE k \in S : TRUE IN f[k] + SumOver(S \ {k}, f)

Min(S) == CHOOSE m \in S : \A k \in S : m <= k

Max(S) == CHOOSE m \in S : \A k \in S : m >= k

PositionIn(seq, e) == CHOOSE i \in 1..Len(seq) : seq[i] = e

\* pandas Series.map(busmap): the value busmap holds for v, NaN when v is
\* not in busmap's index.
MapValue(busmap, v) == IF v \in DOMAIN busmap THEN busmap[v] ELSE NaN

\* x.map(y) for two busmaps, as in reduce(lambda x, y: x.map(y), ...).
MapSeries(x, y) == [b \in DOMAIN x |-> MapValue(y, x[b])]

-----------------------------------------------------------------------------
(* The input networks *)

\* Index order of n.buses.
BusIndex == <<"A", "B", "C", "D", "E", "F">>

AllBuses == Range(BusIndex)

\* Bus coordinates (x, y).
BusXY ==
    [b \in AllBuses |->
        CASE b = "A" -> <<0, 0>>
          [] b = "B" -> <<1, 0>>
          [] b = "C" -> <<3, 0>>
          [] b = "D" -> <<4, 0>>
          [] b = "E" -> <<2, 3>>
          [] b = "F" -> <<3, 2>>]

Type380 == "Al/St 240/40 4-bundle 380.0"
Type220 == "Al/St 240/40 2-bundle 220.0"

\* Candidate AC lines: a ring A-D-E and a dead-end branch A-B-C-F.
LineCandidates ==
    [ l_AD |-> [bus0 |-> "A", bus1 |-> "D"],
      l_DE |-> [bus0 |-> "D", bus1 |-> "E"],
      l_EA |-> [bus0 |-> "E", bus1 |-> "A"],
      l_AB |-> [bus0 |-> "A", bus1 |-> "B"],
      l_BC |-> [bus0 |-> "B", bus1 |-> "C"],
      l_CF |-> [bus0 |-> "C", bus1 |-> "F"] ]

\* Candidate DC links: the chain A-B-C-D with a parallel link on B-C.  A link
\* name is <<name, k>>; k > 0 is the "+k" suffix that simplify_links gives a
\* synthesized link.
LinkCandidates ==
    [ k \in {<<"k_AB", 0>>, <<"k_BC", 0>>, <<"k_BC2", 0>>, <<"k_CD", 0>>} |->
        CASE k[1] = "k_AB"  -> [bus0 |-> "A", bus1 |-> "B", length |-> 4, p_nom |-> 3]
          [] k[1] = "k_BC"  -> [bus0 |-> "B", bus1 |-> "C", length |-> 2, p_nom |-> 1]
          [] k[1] = "k_BC2" -> [bus0 |-> "C", bus1 |-> "B", length |-> 4, p_nom |-> 1]
          [] k[1] = "k_CD"  -> [bus0 |-> "C", bus1 |-> "D", length |-> 6, p_nom |-> 5] ]

\* Index order of n.transformers.
TransformerIndex == <<"T_FE", "T_EA", "T_AD", "T_FA">>

TransformerCandidates ==
    [ T_FE |-> [bus0 |-> "F", bus1 |-> "E"],
      T_EA |-> [bus0 |-> "E", bus1 |-> "A"],
      T_AD |-> [bus0 |-> "A", bus1 |-> "D"],
      T_FA |-> [bus0 |-> "F", bus1 |-> "A"] ]

\* One-port components.  A name is <<first, second>>: aggregation renames a
\* group to "<bus> <carrier>".
Generators0 ==
    [ g \in {<<"g1", "">>, <<"g2", "">>, <<"g3", "">>, <<"g4", "">>, <<"g5", "">>, <<"g6", "">>} |->
        CASE g[1] = "g1" -> [bus |-> "B", carrier |-> "offwind-ac", p_nom |-> 2]
          [] g[1] = "g2" -> [bus |-> "C", carrier |-> "offwind-ac", p_nom |-> 3]
          [] g[1] = "g3" -> [bus |-> "C", carrier |-> "solar", p_nom |-> 1]
          [] g[1] = "g4" -> [bus |-> "F", carrier |-> "offwind-ac", p_nom |-> 1]
          [] g[1] = "g5" -> [bus |-> "A", carrier |-> "OCGT", p_nom |-> 4]
          [] g[1] = "g6" -> [bus |-> "A", carrier |-> "OCGT", p_nom |-> 2] ]

Loads0 ==
    [ l \in {<<b, "">> : b \in AllBuses} |->
        [bus |-> l[1], carrier |-> "", p_set |-> PositionIn(BusIndex, l[1])] ]

StorageUnits0 ==
    [ s \in {<<"s1", "">>, <<"s2", "">>, <<"s3", "">>} |->
        CASE s[1] = "s1" -> [bus |-> "B", carrier |-> "PHS", p_nom |-> 1]
          [] s[1] = "s2" -> [bus |-> "E", carrier |-> "PHS", p_nom |-> 2]
          [] s[1] = "s3" -> [bus |-> "F", carrier |-> "PHS", p_nom |-> 3] ]

Stores0 ==
    [ s \in {<<"st1", "">>, <<"st2", "">>} |->
        CASE s[1] = "st1" -> [bus |-> "C", carrier |-> "H2", e_nom |-> 1]
          [] s[1] = "st2" -> [bus |-> "F", carrier |-> "battery", e_nom |-> 2] ]

\* The largest number of branches (lines, links and transformers together) of
\* an input network.
MaxBranches == 6

\* The network built from a choice of branches.  A bus that is the
\* bus0 side of a transformer is a 220 kV bus, every other bus a 380 kV bus;
\* a line has the voltage and the line type of its bus0.
InputNetwork(ls, ks, ts) ==
    LET v_nom(b) == IF \E t \in ts : TransformerCandidates[t].bus0 = b THEN 220 ELSE 380
    IN  [ buses |-> [b \in AllBuses |-> [v_nom |-> v_nom(b)]],
          lines |-> [l \in ls |->
                        [bus0 |-> LineCandidates[l].bus0,
                         bus1 |-> LineCandidates[l].bus1,
                         v_nom |-> v_nom(LineCandidates[l].bus0),
                         type |-> IF v_nom(LineCandidates[l].bus0) = 380
                                  THEN Type380 ELSE Type220]],
          links |-> Restrict(LinkCandidates, ks),
          transformers |-> Restrict(TransformerCandidates, ts),
          generators |-> Generators0,
          loads |-> Loads0,
          storage_units |-> StorageUnits0,
          stores |-> Stores0 ]

EmptyNetwork ==
    [ buses |-> <<>>, lines |-> <<>>, links |-> <<>>, transformers |-> <<>>,
      generators |-> <<>>, loads |-> <<>>, storage_units |-> <<>>, stores |-> <<>> ]

-----------------------------------------------------------------------------
(* Voltage unification: simplify_network_to_380 *)

BusColumns(r) == {c \in DOMAIN r : c \in {"bus", "bus0", "bus1"}}

\* df[col] = df[col].map(busmap) for every column whose name starts with "bus".
MapBusColumns(df, busmap) ==
    [k \in DOMAIN df |->
        [c \in DOMAIN df[k] |->
            IF c \in BusColumns(df[k]) THEN MapValue(busmap, df[k][c]) ELSE df[k][c]]]

\* pd.Series(bus1, index=bus0) without the duplicated index entries: of the
\* transformers that share a bus0 the first one of the index is kept.
TrafoSeries(net) ==
    LET ts == DOMAIN net.transformers
        first(b) == CHOOSE t \in ts :
                        /\ net.transformers[t].bus0 = b
                        /\ \A u \in ts : net.transformers[u].bus0 = b =>
                              PositionIn(TransformerIndex, t) <= PositionIn(TransformerIndex, u)
    IN  [b \in {net.transformers[t].bus0 : t \in ts} |-> net.transformers[first(b)].bus1]

\* Variant that resolves nothing: every bus0 keeps its own transformer's bus1.
ResolveTrafoChainsNot(series) == series

\* trafo_map.loc[several_trafo_b] = trafo_map.loc[several_trafo_b].map(trafo_map):
\* a value that is itself in the index is replaced by what the index maps it to, once.
ResolveTrafoChains(series) ==
    [b \in DOMAIN series |->
        IF series[b] \in DOMAIN series THEN series[series[b]] ELSE series[b]]

\* Variant that leaves the buses without a transformer out of the map.
WithMissingBusesNot(series, buses) == series

\* pd.concat([trafo_map, missing]): the buses that are no transformer's bus0
\* map to themselves.
WithMissingBuses(series, buses) ==
    [b \in DOMAIN series \cup buses |-> IF b \in DOMAIN series THEN series[b] ELSE b]

TrafoMap(net) ==
    WithMissingBuses(ResolveTrafoChains(TrafoSeries(net)), DOMAIN net.buses)

\* The unique line type of the 380 kV lines; the unpacking at line 128 raises
\* when there is none or more than one.
LineTypes380(net) == {net.lines[l].type : l \in {l \in DOMAIN net.lines : net.lines[l].v_nom = 380}}

\* Variant that lifts the buses but forgets the lines.
LinesTo380Not(net, linetype_380) == net.lines

LinesTo380(net, linetype_380) ==
    [l \in DOMAIN net.lines |->
        IF net.lines[l].v_nom # 380
        THEN [net.lines[l] EXCEPT !.v_nom = 380, !.type = linetype_380]
        ELSE net.lines[l]]

\* Returns [ok, n, trafo_map] (ok = FALSE: the function raised).
simplify_network_to_380(net) ==
    IF Cardinality(LineTypes380(net)) # 1
    THEN [ok |-> FALSE, n |-> [net EXCEPT !.buses = [b \in DOMAIN net.buses |-> [v_nom |-> 380]]],
          trafo_map |-> <<>>]
    ELSE
    LET linetype_380 == CHOOSE t \in LineTypes380(net) : TRUE
        n1 == [net EXCEPT !.buses = [b \in DOMAIN net.buses |-> [v_nom |-> 380]]]
        n2 == [n1 EXCEPT !.lines = LinesTo380(n1, linetype_380)]
        tmap == TrafoMap(n2)
        n3 == [n2 EXCEPT !.lines = MapBusColumns(n2.lines, tmap),
                         !.links = MapBusColumns(n2.links, tmap),
                         !.transformers = MapBusColumns(n2.transformers, tmap),
                         !.generators = MapBusColumns(n2.generators, tmap),
                         !.loads = MapBusColumns(n2.loads, tmap),
                         !.storage_units = MapBusColumns(n2.storage_units, tmap),
                         !.stores = MapBusColumns(n2.stores, tmap)]
        n4 == [n3 EXCEPT !.transformers = Restrict(n3.transformers, {}),
                         !.buses = Restrict(n3.buses, DOMAIN n3.buses \cap Range(tmap))]
    IN  [ok |-> TRUE, n |-> n4, trafo_map |-> tmap]

-----------------------------------------------------------------------------
(* _aggregate_and_move_components *)

Carriers(df) == {df[k].carrier : k \in DOMAIN df}

\* Variant of the default p_nom / p_set strategy: the largest member instead of the sum.
GroupTotalMax(df, members, attr) == Max({df[k][attr] : k \in members})

\* The sum strategy of pypsa's aggregation for p_nom and p_set.
GroupTotal(df, members, attr) == SumOver(members, [k \in members |-> df[k][attr]])

\* pypsa.networkclustering.aggregategenerators / aggregateoneport: the bus
\* column is mapped through busmap, the components are grouped by (bus,
\* carrier), each group becomes one component named "<bus> <carrier>" whose
\* capacity attribute is the group's sum.
AggregateOnePort(df, busmap, attr) ==
    LET moved == MapBusColumns(df, busmap)
        groups == {<<moved[k].bus, moved[k].carrier>> : k \in DOMAIN moved}
        members(g) == {k \in DOMAIN moved : moved[k].bus = g[1] /\ moved[k].carrier = g[2]}
    IN  [g \in groups |->
            [bus |-> g[1], carrier |-> g[2]] @@ (attr :> GroupTotal(moved, members(g), attr))]

\* Variant that also re-homes the stores.
MoveStores(stores, busmap) == MapBusColumns(stores, busmap)

\* aggregate_one_ports={"Load", "StorageUnit"}: n.stores is not touched.
KeepStores(stores, busmap) == stores

BranchesOffBuses(df, buses_to_del) ==
    Restrict(df, {k \in DOMAIN df : df[k].bus0 \notin buses_to_del /\ df[k].bus1 \notin buses_to_del})

aggregate_and_move_components(net, busmap) ==
    LET n1 == [net EXCEPT !.generators = AggregateOnePort(net.generators, busmap, "p_nom"),
                          !.loads = AggregateOnePort(net.loads, busmap, "p_set"),
                          !.storage_units = AggregateOnePort(net.storage_units, busmap, "p_nom"),
                          !.stores = KeepStores(net.stores, busmap)]
        buses_to_del == DOMAIN n1.buses \ Range(busmap)
    IN  [n1 EXCEPT !.buses = Restrict(n1.buses, DOMAIN n1.buses \ buses_to_del),
                   !.lines = BranchesOffBuses(n1.lines, buses_to_del),
                   !.links = BranchesOffBuses(n1.links, buses_to_del),
                   !.transformers = BranchesOffBuses(n1.transformers, buses_to_del)]

-----------------------------------------------------------------------------
(* The graph of the network: n.graph() *)

\* Index order of n.lines and of n.links.
LineIndex == <<"l_AD", "l_DE", "l_EA", "l_AB", "l_BC", "l_CF">>

LinkIndex == <<"k_AB", "k_BC", "k_BC2", "k_CD">>

Joins(br, u, v) == (br.bus0 = u /\ br.bus1 = v) \/ (br.bus0 = v /\ br.bus1 = u)

LinesBetween(net, u, v) == {l \in DOMAIN net.lines : Joins(net.lines[l], u, v)}

LinksBetween(net, u, v) == {k \in DOMAIN net.links : Joins(net.links[k], u, v)}

TransformersBetween(net, u, v) == {t \in DOMAIN net.transformers : Joins(net.transformers[t], u, v)}

\* set(G.adj[u]): the buses that share a branch with u (u itself for a
\* branch from u to u).
Adj(net, u) ==
    {v \in DOMAIN net.buses :
        LinesBetween(net, u, v) \cup TransformersBetween(net, u, v) # {}
            \/ LinksBetween(net, u, v) # {}}

\* The other ends of u's branches in one table, in index order (with repeats).
RECURSIVE EndsInOrder(_, _, _, _)
EndsInOrder(df, key, index, u) ==
    IF index = <<>> THEN <<>>
    ELSE LET k == key[Head(index)]
             rest == EndsInOrder(df, key, Tail(index), u)
         IN  IF k \notin DOMAIN df THEN rest
             ELSE IF df[k].bus0 = u THEN <<df[k].bus1>> \o rest
             ELSE IF df[k].bus1 = u THEN <<df[k].bus0>> \o rest
             ELSE rest

RECURSIVE FirstOccurrences(_, _)
FirstOccurrences(seq, had) ==
    IF seq = <<>> THEN <<>>
    ELSE IF Head(seq) \in had THEN FirstOccurrences(Tail(seq), had)
    ELSE <<Head(seq)>> \o FirstOccurrences(Tail(seq), had \cup {Head(seq)})

\* G.adj[u] in its iteration order: neighbours in the order in which the
\* graph's edges were added.  lines_first tells which of the tables Line and
\* Link n.graph() iterated first.
AdjOrder(net, u, lines_first) ==
    LET viaLines == EndsInOrder(net.lines, [i \in Range(LineIndex) |-> i], LineIndex, u)
        viaLinks == EndsInOrder(net.links, [i \in Range(LinkIndex) |-> <<i, 0>>], LinkIndex, u)
    IN  FirstOccurrences(IF lines_first THEN viaLines \o viaLinks ELSE viaLinks \o viaLines, {})

\* Connected component of bus u in the graph whose edges are given by edge(_, _).
RECURSIVE Reach(_, _, _)
Reach(net, link_only, S) ==
    LET next == S \cup {v \in DOMAIN net.buses : \E u \in S :
                          IF link_only THEN LinksBetween(net, u, v) # {} ELSE v \in Adj(net, u)}
    IN  IF next = S THEN S ELSE Reach(net, link_only, next)

\* The components ("labels") of the graph of the DC links.
LinkComponents(net) == {Reach(net, TRUE, {b}) : b \in DOMAIN net.buses}

-----------------------------------------------------------------------------
(* Link folding: simplify_links.split_links *)

Supernodes(net, nodes) ==
    {m \in nodes : Cardinality(Adj(net, m)) > 2 \/ Adj(net, m) \ nodes # {}}

StepSegment(net, a, b) == [lines |-> LinesBetween(net, a, b), links |-> LinksBetween(net, a, b)]

\* The while loop of lines 268-278: from the chain u ... m, walk on until m is
\* a supernode, a bus already seen, or a dead end.  w = [m, seen, buses, links].
RECURSIVE Walk(_, _, _, _, _, _)
Walk(net, nodes, supernodes, lines_first, u, w) ==
    IF w.m \in supernodes \cup w.seen THEN w
    ELSE LET seen1 == w.seen \cup {w.m}
             cands == SelectSeq(AdjOrder(net, w.m, lines_first),
                                LAMBDA m2 : ~(m2 \in seen1 \/ m2 = u))
         IN  IF cands = <<>>
             THEN [w EXCEPT !.seen = seen1]
             ELSE Walk(net, nodes, supernodes, lines_first, u,
                       [m |-> Head(cands), seen |-> seen1,
                        buses |-> Append(w.buses, Head(cands)),
                        links |-> Append(w.links, StepSegment(net, w.m, Head(cands)))])

\* The loop over G.adj[u] of lines 262-280 for one supernode u.
\* acc = [seen, chains]; a chain is [b, buses, links].
RECURSIVE FromSupernode(_, _, _, _, _, _, _)
FromSupernode(net, nodes, supernodes, lines_first, u, todo, acc) ==
    IF todo = <<>> THEN acc
    ELSE LET m == Head(todo)
         IN  IF m \notin nodes \/ m \in acc.seen
             THEN FromSupernode(net, nodes, supernodes, lines_first, u, Tail(todo), acc)
             ELSE LET w == Walk(net, nodes, supernodes, lines_first, u,
                                [m |-> m, seen |-> acc.seen, buses |-> <<u, m>>,
                                 links |-> <<StepSegment(net, u, m)>>])
                      chain == [b |-> <<u, w.m>>, buses |-> w.buses, links |-> w.links]
                  IN  FromSupernode(net, nodes, supernodes, lines_first, u, Tail(todo),
                                    [seen |-> w.seen,
                                     chains |-> IF w.m # u THEN Append(acc.chains, chain)
                                                ELSE acc.chains])

\* split_links(nodes): the chains it yields, for one iteration order of the
\* set supernodes.
RECURSIVE SplitLoop(_, _, _, _, _, _)
SplitLoop(net, nodes, supernodes, lines_first, order, acc) ==
    IF order = <<>> THEN acc.chains
    ELSE LET u == Head(order)
             r == FromSupernode(net, nodes, supernodes, lines_first, u,
                                AdjOrder(net, u, lines_first), acc)
         IN  SplitLoop(net, nodes, supernodes, lines_first, Tail(order),
                       [r EXCEPT !.seen = r.seen \cup {u}])

split_links(net, nodes, lines_first, order) ==
    SplitLoop(net, nodes, Supernodes(net, nodes), lines_first, order,
              [seen |-> {}, chains |-> <<>>])

-----------------------------------------------------------------------------
(* Connection costs *)

\* config['renewable']
Renewable == {"offwind-ac", "solar"}

\* tech.startswith('offwind')
StartsWithOffwind(tech) == tech \in {"offwind-ac", "offwind-dc"}

\* Lines 159-172: the connection cost of every link, for the offwind
\* technologies of config['renewable'].  The length factor and the costs per
\* length are taken as 1, so the cost of a link is its length.
prepare_connection_costs_per_link(net) ==
    IF DOMAIN net.links = {} THEN <<>>
    ELSE [tech \in {t \in Renewable : StartsWithOffwind(t)} |->
            [k \in DOMAIN net.links |-> net.links[k].length]]

\* The entry of n.adjacency_matrix(weights=...) for the buses a and b: no
\* entry without a branch, else the sum of the weights of the branches
\* between them; a line weighs 0, a link its cost; a link without a cost (a
\* link added since the costs were prepared) is left out.
EdgeWeights(net, cost, a, b) ==
    LET ks == LinksBetween(net, a, b) \cap DOMAIN cost
    IN  IF a = b \/ (ks = {} /\ LinesBetween(net, a, b) = {}) THEN {}
        ELSE {SumOver(ks, cost)}

\* n.adjacency_matrix(weights=...): the entries of every pair of buses.
adjacency_matrix(net, cost) ==
    [p \in (DOMAIN net.buses) \X (DOMAIN net.buses) |-> EdgeWeights(net, cost, p[1], p[2])]

\* dijkstra(adj, directed=False, indices=src): the cost of the cheapest path
\* to every bus that can be reached, found by relaxing until nothing changes
\* (at most rounds times).
RECURSIVE Dijkstra(_, _, _, _)
Dijkstra(adj, buses, d, rounds) ==
    IF rounds = 0 THEN d
    ELSE LET cand == [v \in buses |->
                        (IF v \in DOMAIN d THEN {d[v]} ELSE {})
                            \cup UNION {{d[u] + w : w \in adj[<<u, v>>]} : u \in DOMAIN d}]
             next == [v \in {b \in buses : cand[b] # {}} |-> Min(cand[v])]
         IN  IF next = d THEN d ELSE Dijkstra(adj, buses, next, rounds - 1)

\* costs_between_buses[bus, busmap[bus]]
CostBetween(adj, buses, a, b) ==
    LET d == Dijkstra(adj, buses, (a :> 0), Cardinality(buses))
    IN  IF b \in DOMAIN d THEN d[b] ELSE NaN

\* Lines 175-192: for every technology with connection costs, the cost of the
\* cheapest path from each of the buses to the bus it is mapped to.
compute_connection_costs_to_bus(net, busmap, connection_costs_per_link, buses) ==
    [tech \in DOMAIN connection_costs_per_link |->
        LET adj == adjacency_matrix(net, connection_costs_per_link[tech])
        IN  [b \in buses |-> CostBetween(adj, DOMAIN net.buses, b, busmap[b])]]

\* Lines 195-205: costs is the positive connection cost of the bus of every
\* generator of the technology; it is added to the capital_cost of these
\* generators and becomes the column of the technology in the report, unless
\* it is empty.  The value is the report.
adjust_capital_costs_using_connection_costs(net, connection_costs_to_bus) ==
    LET costs(tech) ==
            [g \in {g \in DOMAIN net.generators :
                        /\ net.generators[g].carrier = tech
                        /\ net.generators[g].bus \in DOMAIN connection_costs_to_bus[tech]
                        /\ connection_costs_to_bus[tech][net.generators[g].bus] > 0} |->
                connection_costs_to_bus[tech][net.generators[g].bus]]
    IN  [tech \in {t \in DOMAIN connection_costs_to_bus : DOMAIN costs(t) # {}} |-> costs(tech)]

\* The output files of the two stages: the names of the files of the simplify
\* stage that exist, the content of the connection-cost report, what
\* _adjust_capital_costs_using_connection_costs has added to the capital
\* costs call by call, the region files read and written, and the (file,
\* target) pairs of the cluster stage.
NoOutput == [written |-> {}, connection_costs |-> <<>>, added |-> <<>>, regions_in |-> <<>>, regions |-> <<>>, clustered |-> {}]

\* pd.DataFrame(connection_costs).to_csv(filepaths.output.connection_costs)
WriteConnectionCosts(files, report) ==
    [files EXCEPT !.written = @ \cup {"connection_costs"},
                  !.connection_costs = report,
                  !.added = Append(@, report)]

-----------------------------------------------------------------------------
(* Link folding: simplify_links *)

SquaredDistance(a, b) ==
    (BusXY[a][1] - BusXY[b][1]) * (BusXY[a][1] - BusXY[b][1])
        + (BusXY[a][2] - BusXY[b][2]) * (BusXY[a][2] - BusXY[b][2])

\* Variant that sends every interior bus to the first boundary bus.
NearestBoundaryFirst(b, bus) == b[1]

\* b[m.argmin(axis=0)]: the boundary bus nearest to an interior bus, the
\* first one on a tie.
NearestBoundary(b, bus) ==
    IF SquaredDistance(b[1], bus) <= SquaredDistance(b[2], bus) THEN b[1] ELSE b[2]

\* busmap.loc[buses] = b[np.r_[0, m.argmin(axis=0), 1]]
ChainBusmap(busmap, chain) ==
    LET last == Len(chain.buses)
        at(bus) == CHOOSE i \in 1..last : chain.buses[i] = bus
    IN  [x \in DOMAIN busmap |->
            IF x \notin Range(chain.buses) THEN busmap[x]
            ELSE IF chain.buses[last] = x THEN chain.b[2]
            ELSE IF at(x) = 1 THEN chain.b[1]
            ELSE NearestBoundary(chain.b, x)]

RECURSIVE InIndexOrder(_, _)
InIndexOrder(index, ks) ==
    IF index = <<>> THEN <<>>
    ELSE IF \E k \in ks : k[1] = Head(index)
         THEN <<CHOOSE k \in ks : k[1] = Head(index)>> \o InIndexOrder(Tail(index), ks)
         ELSE InIndexOrder(Tail(index), ks)

\* all_links = [i for _, i in sum(links, [])]
RECURSIVE AllLinks(_)
AllLinks(links) ==
    IF links = <<>> THEN <<>>
    ELSE InIndexOrder(LinkIndex, Head(links).links) \o AllLinks(Tail(links))

\* lengths.idxmax(): the first link of the longest length.
IdxMax(df, all_links) ==
    LET longest == Max({df[all_links[i]].length : i \in 1..Len(all_links)})
        first == Min({i \in 1..Len(all_links) : df[all_links[i]].length = longest})
    IN  all_links[first]

\* n.links.loc[..., 'length'].mean() of one segment's parallel links.  The
\* lengths of the candidate links are chosen so that every mean is a whole number.
MeanLength(df, ks) == SumOver(ks, [k \in ks |-> df[k].length]) \div Cardinality(ks)

SumPNom(df, ks) == SumOver(ks, [k \in ks |-> df[k].p_nom])

\* Variant: the length of the new link is the plain sum of all link lengths.
ChainLengthAllLinks(df, links) ==
    SumOver(1..Len(links), [i \in 1..Len(links) |->
        SumOver(links[i].links, [k \in links[i].links |-> df[k].length])])

\* length=sum(n.links.loc[[i for _, i in l], 'length'].mean() for l in links)
ChainLength(df, links) ==
    SumOver(1..Len(links), [i \in 1..Len(links) |-> MeanLength(df, links[i].links)])

\* Variant: the capacity of the first segment instead of the bottleneck.
ChainPNomFirst(df, links) == SumPNom(df, links[1].links)

\* p_nom=min(n.links.loc[[i for _, i in l], 'p_nom'].sum() for l in links)
ChainPNom(df, links) == Min({SumPNom(df, links[i].links) : i \in 1..Len(links)})

\* The body of the loop of lines 290-324 for one yielded chain.
\* st = [ok, n, busmap, connection_costs_per_link, connection_costs_to_bus];
\* ok = FALSE once a lookup in n.links has raised.
FoldChain(st, chain) ==
    IF ~st.ok \/ Len(chain.buses) <= 2 THEN st
    ELSE
    LET busmap1 == ChainBusmap(st.busmap, chain)
        df == st.n.links
        all_links == AllLinks(chain.links)
        known == \A i \in 1..Len(chain.links) :
                    /\ chain.links[i].lines = {}
                    /\ chain.links[i].links \subseteq DOMAIN df
    IN  IF ~known THEN [st EXCEPT !.ok = FALSE, !.busmap = busmap1]
        ELSE
        LET name == <<IdxMax(df, all_links)[1], Len(chain.links) - 1>>
            params == [bus0 |-> chain.b[1], bus1 |-> chain.b[2],
                       length |-> ChainLength(df, chain.links),
                       p_nom |-> ChainPNom(df, chain.links)]
            kept == DOMAIN df \ Range(all_links)
            to_bus == compute_connection_costs_to_bus(st.n, busmap1, st.connection_costs_per_link,
                                                      Range(chain.buses))
        IN  [st EXCEPT !.busmap = busmap1,
                       !.connection_costs_to_bus =
                            [tech \in DOMAIN @ |->
                                [b \in DOMAIN @[tech] |->
                                    IF b \in Range(chain.buses)
                                    THEN @[tech][b] + to_bus[tech][b] ELSE @[tech][b]]],
                       !.n.links = [k \in kept \cup {name} |->
                                       IF k = name THEN params ELSE df[k]]]

\* The loop of lines 290-324 over the yielded chains.  The state after a chain
\* is bound as a value, so that it is computed once.
RECURSIVE FoldChains(_, _)
FoldChains(st, chains) ==
    IF chains = <<>> THEN st
    ELSE CHOOSE r \in {FoldChains(st1, rest) : st1 \in {FoldChain(st, Head(chains))},
                                               rest \in {Tail(chains)}} : TRUE

\* labels.value_counts().loc[lambda s: s > 2].index
BigComponents(net) == {c \in LinkComponents(net) : Cardinality(c) > 2}

AllSupernodes(net) == UNION {Supernodes(net, c) : c \in BigComponents(net)}

\* The iteration orders a Python set of the buses S can have.
Orders(S) == {f \in [1..Cardinality(S) -> S] : \A i, j \in DOMAIN f : i # j => f[i] # f[j]}

\* The loop of line 288; net0 is the network G and labels were computed from.
RECURSIVE FoldComponents(_, _, _, _, _)
FoldComponents(net0, comps, lines_first, order, st) ==
    IF comps = {} THEN st
    ELSE LET c == CHOOSE c \in comps : TRUE
             sub == SelectSeq(order, LAMBDA u : u \in c)
         IN  CHOOSE r \in {FoldComponents(net0, comps \ {c}, lines_first, order, st1) :
                              st1 \in {FoldChains(st, split_links(net0, c, lines_first, sub))}} : TRUE

\* Returns [ok, n, busmap, connection_costs_per_link, connection_costs_to_bus,
\* aggregated]; aggregated tells whether _aggregate_and_move_components ran.
simplify_links(net, lines_first, order) ==
    LET per_link == prepare_connection_costs_per_link(net)
        st0 == [ok |-> TRUE, n |-> net, busmap |-> Identity(DOMAIN net.buses),
                connection_costs_per_link |-> per_link,
                connection_costs_to_bus |->
                    [tech \in DOMAIN per_link |-> [b \in DOMAIN net.buses |-> 0]],
                aggregated |-> FALSE]
    IN  IF DOMAIN net.links = {} THEN st0
        ELSE LET st == FoldComponents(net, BigComponents(net), lines_first, order, st0)
             IN  IF ~st.ok THEN st
                 ELSE [st EXCEPT !.n = aggregate_and_move_components(st.n, st.busmap),
                                 !.aggregated = TRUE]

-----------------------------------------------------------------------------
(* Stub removal: remove_stubs and pypsa's busmap_by_stubs *)

\* list(G.adj[u].keys()) in the graph G that busmap_by_stubs prunes: the
\* neighbours of u among the nodes G still has.
Neighbours(net, nodes, u) == Adj(net, u) \cap nodes

\* Variant: one sweep only, a stub exposed by the removal of another one stays.
IsStubFirstPassOnly(net, nodes, u) ==
    stubs.passes = 0 /\ Cardinality(Neighbours(net, nodes, u)) = 1

\* len(neighbours) == 1
IsStub(net, nodes, u) == Cardinality(Neighbours(net, nodes, u)) = 1

\* One run of the for loop over G.nodes: st = [busmap, found].
RECURSIVE StubSweep(_, _, _, _)
StubSweep(net, nodes, todo, st) ==
    IF todo = <<>> THEN st
    ELSE LET u == Head(todo)
         IN  IF u \in nodes /\ IsStub(net, nodes, u)
             THEN LET v == CHOOSE v \in Neighbours(net, nodes, u) : TRUE
                  IN  StubSweep(net, nodes, Tail(todo),
                                [busmap |-> [x \in DOMAIN st.busmap |->
                                                IF st.busmap[x] = u THEN v ELSE st.busmap[x]],
                                 found |-> st.found \cup {u}])
             ELSE StubSweep(net, nodes, Tail(todo), st)

-----------------------------------------------------------------------------
(* scripts/simplify_network.py, __main__ *)

NoStubs == [nodes |-> {}, busmap |-> <<>>, passes |-> 0]

\* n, trafo_map = simplify_network_to_380(n)
SimplifyNetworkTo380 ==
    /\ pc = "simplify_network_to_380"
    /\ \E r \in {simplify_network_to_380(n)} :
           /\ n' = r.n
           /\ trafo_map' = r.trafo_map
           /\ pc' = IF r.ok THEN "simplify_links" ELSE "error"
    /\ UNCHANGED <<n_in, simplify_links_map, stub_map, busmap_s, stubs, dc, bm, out, sr, cl>>

\* n, simplify_links_map = simplify_links(n, technology_costs, aggregation_strategies)
SimplifyLinks ==
    /\ pc = "simplify_links"
    /\ \E lines_first \in BOOLEAN, order \in Orders(AllSupernodes(n)) :
          \E r \in {simplify_links(n, lines_first, order)} :
              /\ n' = r.n
              /\ simplify_links_map' = r.busmap
              /\ pc' = IF r.ok THEN "remove_stubs" ELSE "error"
              /\ out' = IF r.aggregated
                        THEN WriteConnectionCosts(out,
                                adjust_capital_costs_using_connection_costs(n, r.connection_costs_to_bus))
                        ELSE out
    /\ UNCHANGED <<n_in, trafo_map, stub_map, busmap_s, stubs, dc, bm, sr, cl>>

\* remove_stubs: busmap = busmap_by_stubs(n) starts with the identity busmap
\* and the graph of n.
RemoveStubs ==
    /\ pc = "remove_stubs"
    /\ stubs' = [nodes |-> DOMAIN n.buses, busmap |-> Identity(DOMAIN n.buses), passes |-> 0]
    /\ pc' = "busmap_by_stubs"
    /\ UNCHANGED <<n_in, n, trafo_map, simplify_links_map, stub_map, busmap_s, dc, bm, out, sr, cl>>

\* One pass of the while loop of busmap_by_stubs.  The pass that finds no
\* stub leaves the loop; remove_stubs then moves the components and returns.
StubPass ==
    /\ pc = "busmap_by_stubs"
    /\ \E r \in {StubSweep(n, stubs.nodes, BusIndex, [busmap |-> stubs.busmap, found |-> {}])} :
           IF r.found # {}
           THEN /\ stubs' = [nodes |-> stubs.nodes \ r.found, busmap |-> r.busmap,
                             passes |-> stubs.passes + 1]
                /\ UNCHANGED <<pc, n, stub_map, out>>
           ELSE /\ stubs' = [stubs EXCEPT !.passes = stubs.passes + 1]
                /\ n' = aggregate_and_move_components(n, stubs.busmap)
                /\ stub_map' = stubs.busmap
                /\ pc' = "export"
                /\ out' = WriteConnectionCosts(out,
                             adjust_capital_costs_using_connection_costs(n,
                                compute_connection_costs_to_bus(n, stubs.busmap,
                                    prepare_connection_costs_per_link(n),
                                    {b \in DOMAIN stubs.busmap : stubs.busmap[b] # b})))
    /\ UNCHANGED <<n_in, trafo_map, simplify_links_map, busmap_s, dc, bm, sr, cl>>

\* Variant that maps the transformer busmap straight through the stub busmap.
ComposeBusmapsSkippingLinks(busmaps) == MapSeries(busmaps[1], busmaps[3])

\* busmap_s = reduce(lambda x, y: x.map(y), busmaps[1:], busmaps[0])
ComposeBusmaps(busmaps) == MapSeries(MapSeries(busmaps[1], busmaps[2]), busmaps[3])

\* The two region files.
RegionFiles == {"regions_onshore", "regions_offshore"}

\* The region files of the input: the names of the buses that have a polygon.
\* build_bus_regions gives an onshore polygon to the buses with substation_lv
\* and an offshore polygon to the buses with substation_off.  The polygon of
\* a bus is named by the bus.
RegionInputs ==
    {[regions_onshore |-> on, regions_offshore |-> off] :
        on \in {AllBuses, AllBuses \ {"D"}}, off \in {{"C", "F"}, {"F"}}}

\* Variant that keeps every polygon a region of its own.
KeepPolygons(regions, busmap) == [r \in regions |-> {r}]

\* regions.dissolve(busmap): the polygons are grouped by the busmap's value at
\* their name; a polygon whose name the busmap does not have, or maps to NaN,
\* is in no group.  A region is the set of the polygons it is the union of.
dissolve(regions, busmap) ==
    LET mapped == {r \in regions \cap DOMAIN busmap : busmap[r] # NaN}
    IN  [c \in {busmap[r] : r \in mapped} |-> {r \in mapped : busmap[r] = c}]

\* Lines 344-354: both region files are dissolved by the composed busmap.
simplified_regions(busmaps, input) ==
    [which \in RegionFiles |-> dissolve(input[which], ComposeBusmaps(busmaps))]

\* Lines 378-393: the network and the composed busmap are written, then
\* simplified_regions reads the region files and writes the dissolved ones.
Export ==
    /\ pc = "export"
    /\ busmap_s' = ComposeBusmaps(<<trafo_map, simplify_links_map, stub_map>>)
    /\ \E input \in RegionInputs :
          out' = [out EXCEPT !.written = @ \cup {"network", "busmap"} \cup RegionFiles,
                             !.regions_in = input,
                             !.regions = simplified_regions(<<trafo_map, simplify_links_map, stub_map>>, input)]
    /\ pc' = "done"
    /\ UNCHANGED <<n_in, n, trafo_map, simplify_links_map, stub_map, stubs, dc, bm, sr, cl>>

DcIdle == [pc |-> "idle"]

SrIdle == [pc |-> "idle"]

ClIdle == [pc |-> "idle"]

BmIdle == [pc |-> "idle"]

Init ==
    /\ pc = "simplify_network_to_380"
    /\ \E ls \in SUBSET DOMAIN LineCandidates,
          ks \in SUBSET DOMAIN LinkCandidates,
          ts \in SUBSET DOMAIN TransformerCandidates :
            /\ Cardinality(ls) + Cardinality(ks) + Cardinality(ts) <= MaxBranches
            /\ n_in = InputNetwork(ls, ks, ts)
            /\ n = n_in
    /\ trafo_map = <<>>
    /\ simplify_links_map = <<>>
    /\ stub_map = <<>>
    /\ busmap_s = <<>>
    /\ stubs = NoStubs
    /\ dc = DcIdle
    /\ bm = BmIdle
    /\ out = NoOutput
    /\ sr = SrIdle
    /\ cl = ClIdle

Next ==
    \/ SimplifyNetworkTo380
    \/ SimplifyLinks
    \/ RemoveStubs
    \/ StubPass
    \/ Export

Spec == Init /\ [][Next]_vars

-----------------------------------------------------------------------------
(* Cluster-count allocator: scripts/cluster_network.py, distribute_clusters *)

\* Partition keys (country, sub_network).
PartitionKeys == {<<"DE", "0">>, <<"FR", "0">>, <<"FR", "1">>}

\* The largest number of buses of one partition.
MaxBusesPerPartition == 3

\* The largest total mean load of one partition (in whole units).
MaxLoad == 2

RECURSIVE Factorial(_)
Factorial(k) == IF k <= 1 THEN 1 ELSE k * Factorial(k - 1)

\* The objective of line 323, sum((m.n[i] - L.loc[i]*n_clusters)**2), with
\* L.loc[i] = load[i] / total: every term is scaled by total**2.
Objective(load, n_clusters, a) ==
    LET total == SumOver(DOMAIN load, load)
    IN  SumOver(DOMAIN load,
                [i \in DOMAIN load |->
                    (total * a[i] - load[i] * n_clusters) * (total * a[i] - load[i] * n_clusters)])

\* The feasible set of the program: integers within n_bounds (1, N[n_id])
\* that satisfy m.tot.
FeasibleAllocations(N, index, n_clusters) ==
    {a \in [index -> 1..MaxBusesPerPartition] :
        /\ \A i \in index : a[i] <= N[i]
        /\ SumOver(index, a) = n_clusters}

\* What a solver with quadratic-objective support returns for the integer
\* program: the optimal allocations (any one of them when several tie).
IntegerOptima(N, load, n_clusters) ==
    LET feasible == FeasibleAllocations(N, DOMAIN load, n_clusters)
    IN  {a \in feasible :
            \A o \in feasible : Objective(load, n_clusters, a) <= Objective(load, n_clusters, o)}

\* What ipopt solves: the same program with the integrality of m.n dropped.
\* The optimum of the continuous program is unique; it has the form
\* n[i] = clip(L[i]*n_clusters + lambda, 1, N[i]).  The optimum is returned
\* multiplied by den = Factorial(len(L)) * total, which makes it integral.
ContinuousOptimum(N, load, n_clusters) ==
    LET index == DOMAIN load
        total == SumOver(index, load)
        fact  == Factorial(Cardinality(index))
        den   == fact * total
        target(i) == fact * load[i] * n_clusters
        free(s) == {i \in index : s[i] = "free"}
        fixed(s) == SumOver(index, [i \in index |->
                        IF s[i] = "lo" THEN 1 ELSE IF s[i] = "hi" THEN N[i] ELSE 0])
        shift(s) == (fact \div Cardinality(free(s)))
                        * ((n_clusters - fixed(s)) * total
                             - n_clusters * SumOver(free(s), [i \in free(s) |-> load[i]]))
        point(s) == [i \in index |->
                        IF s[i] = "lo" THEN den
                        ELSE IF s[i] = "hi" THEN N[i] * den
                        ELSE target(i) + shift(s)]
        optimal(s) ==
            IF free(s) = {}
            THEN /\ fixed(s) = n_clusters
                 /\ \A h, l \in index : (s[h] = "hi" /\ s[l] = "lo") =>
                        N[h] * den - target(h) <= den - target(l)
            ELSE /\ \A i \in index : s[i] = "free" =>
                        den <= target(i) + shift(s) /\ target(i) + shift(s) <= N[i] * den
                 /\ \A i \in index : s[i] = "lo" => target(i) + shift(s) <= den
                 /\ \A i \in index : s[i] = "hi" => target(i) + shift(s) >= N[i] * den
        active == {s \in [index -> {"lo", "free", "hi"}] : optimal(s)}
    IN  [den |-> den, n |-> point(CHOOSE s \in active : TRUE)]

\* Variant of the rounding that always truncates.
RoundingsDown(x, den) == {x \div den}

\* .round() of the value x / den.  A value that lies exactly halfway between
\* two integers comes out of the interior-point solver with a numerical error
\* of either sign, so it may be rounded either way.
Roundings(x, den) ==
    LET q == x \div den
        r == x % den
    IN  IF 2 * r < den THEN {q}
        ELSE IF 2 * r > den THEN {q + 1}
        ELSE {q, q + 1}

\* The values pd.Series(m.n.get_values(), index=L.index).round().astype(int)
\* can take, by the capability of the configured solver.
SolverResults(N, load, n_clusters, quadratic_objective) ==
    IF quadratic_objective
    THEN IntegerOptima(N, load, n_clusters)
    ELSE LET opt == ContinuousOptimum(N, load, n_clusters)
         IN  {a \in [DOMAIN load -> 0..(MaxBusesPerPartition + 1)] :
                \A i \in DOMAIN load : a[i] \in Roundings(opt.n[i], opt.den)}

\* Shares and weights are fractions <<numerator, denominator>> in lowest
\* terms with a positive denominator.
RECURSIVE GCD(_, _)
GCD(a, b) == IF b = 0 THEN a ELSE GCD(b, a % b)

Frac(num, den) ==
    LET g == GCD(IF num < 0 THEN -num ELSE num, den)
    IN  IF num = 0 THEN <<0, 1>> ELSE <<num \div g, den \div g>>

FracAdd(x, y) == Frac(x[1] * y[2] + y[1] * x[2], x[2] * y[2])

FracMul(x, y) == Frac(x[1] * y[1], x[2] * y[2])

\* x / y for y > 0.
FracDiv(x, y) == Frac(x[1] * y[2], x[2] * y[1])

FracLeq(x, y) == x[1] * y[2] <= y[1] * x[2]

OneMinus(x) == Frac(x[2] - x[1], x[2])

RECURSIVE FracSum(_, _)
FracSum(S, f) ==
    IF S = {} THEN <<0, 1>>
    ELSE LET k == CHOOSE k \in S : TRUE
         IN  FracAdd(f[k], FracSum(S \ {k}, f))

\* normed(x) = (x/x.sum()).fillna(0.) on the rows S of x: a zero sum makes
\* every quotient NaN, which fillna turns into 0.
normed(S, x) ==
    LET total == FracSum(S, x)
    IN  [p \in S |-> IF total[1] = 0 THEN <<0, 1>> ELSE FracDiv(x[p], total)]

\* The absent value of country_weights and tso_weights.  No empty dict is
\* among the configurations, so the empty function stands for None.
None == <<>>

\* sum(list(weights.values()))
WeightTotal(weights) == FracSum(DOMAIN weights, weights)

\* The rows of the index whose first level is country.
CountryRows(index, country) == {p \in index : p[1] = country}

\* Lines 311-314 (and 247-250, 276-279): the mean load per partition, normed.
DefaultShares(load) ==
    normed(DOMAIN load, [p \in DOMAIN load |-> <<load[p], 1>>])

\* L[remainder] = L.loc[remainder].pipe(normed) * (1 - total_country)
RemainderShares(L, index, country_weights) ==
    LET remainder == {p \in index : p[1] \notin DOMAIN country_weights}
        shares == normed(remainder, L)
    IN  [p \in DOMAIN L |->
            IF p \in remainder
            THEN FracMul(shares[p], OneMinus(WeightTotal(country_weights)))
            ELSE L[p]]

\* Variant that splits a country's weight evenly over its rows.
CountryShareEven(L, index, country, weight) ==
    LET rows == CountryRows(index, country)
    IN  [p \in DOMAIN L |->
            IF p \in rows THEN FracDiv(weight, <<Cardinality(rows), 1>>) ELSE L[p]]

\* L[country] = weight * L[country].transform(lambda x: normed(x))
CountryShare(L, index, country, weight) ==
    LET rows == CountryRows(index, country)
        shares == normed(rows, L)
    IN  [p \in DOMAIN L |-> IF p \in rows THEN FracMul(weight, shares[p]) ELSE L[p]]

\* Lines 256-260: the loop over country_weights and the remainder.  A country
\* of the weights that has no row in L raises a KeyError.
CountryWeightedShares(load, country_weights) ==
    LET index == DOMAIN load
        L0 == DefaultShares(load)
        weighted == [p \in index |->
                        IF p[1] \in DOMAIN country_weights
                        THEN CountryShare(L0, index, p[1], country_weights[p[1]])[p]
                        ELSE L0[p]]
    IN  [key_error |-> \E c \in DOMAIN country_weights : CountryRows(index, c) = {},
         L |-> RemainderShares(weighted, index, country_weights)]

\* Lines 288-301: the loop over country_weights with TSO weights and the
\* remainder; the index of L is (country, tso).  L[country, tso] = ... adds
\* a row when the network has no such partition (enlarged).  The remainder of
\* a country is assigned through L[country][remainder] = ..., a chained
\* assignment: it reaches L when L[country] is a view of L (writes_through)
\* and is lost when L[country] is a copy.
TsoWeightedShares(load, country_weights, tso_weights, writes_through) ==
    LET index == DOMAIN load
        L0 == DefaultShares(load)
        split == DOMAIN country_weights \cap DOMAIN tso_weights
        named == UNION {{<<c, t>> : t \in DOMAIN tso_weights[c]} : c \in split}
        unnamed(c) == CountryRows(index, c) \ named
        weighted == [p \in index \cup named |->
                        IF p \in named
                        THEN FracMul(tso_weights[p[1]][p[2]], country_weights[p[1]])
                        ELSE IF p[1] \in split
                        THEN IF writes_through
                             THEN FracMul(normed(unnamed(p[1]), L0)[p],
                                          OneMinus(WeightTotal(tso_weights[p[1]])))
                             ELSE L0[p]
                        ELSE IF p[1] \in DOMAIN country_weights
                        THEN CountryShare(L0, index, p[1], country_weights[p[1]])[p]
                        ELSE L0[p]]
    IN  [key_error |-> \E c \in DOMAIN country_weights \ split : CountryRows(index, c) = {},
         enlarged |-> named \ index # {},
         L |-> RemainderShares(weighted, index, country_weights)]

\* np.isclose(L.sum(), 1.0, rtol=1e-3)
IsCloseToOne(x) ==
    LET diff == IF x[1] >= x[2] THEN x[1] - x[2] ELSE x[2] - x[1]
    IN  1000 * diff <= x[2]

LCM(a, b) == (a * b) \div GCD(a, b)

RECURSIVE CommonDenominator(_, _)
CommonDenominator(S, L) ==
    IF S = {} THEN 1
    ELSE LET k == CHOOSE k \in S : TRUE
         IN  LCM(L[k][2], CommonDenominator(S \ {k}, L))

\* The shares L as whole numbers over their common denominator, the form in
\* which Objective and ContinuousOptimum take them.
ShareNumerators(L) ==
    LET den == CommonDenominator(DOMAIN L, L)
    IN  [p \in DOMAIN L |-> L[p][1] * (den \div L[p][2])]

\* What opt.solve(m) can report for a program that has a solution: the solver
\* status and the termination condition.  A solver stopped by a limit reports
\* the limit as termination condition, with status "ok" when it holds a
\* feasible solution and with status "aborted" otherwise.
SolverOutcomes ==
    {[status |-> "ok", termination |-> "optimal"],
     [status |-> "ok", termination |-> "maxTimeLimit"],
     [status |-> "aborted", termination |-> "maxTimeLimit"],
     [status |-> "warning", termination |-> "maxIterations"],
     [status |-> "error", termination |-> "error"]}

NoOutcome == [status |-> "", termination |-> ""]

\* Variant without the assertion: any cluster count goes to the solver.
ClusterCountUnchecked(N, n_clusters) == TRUE

\* The assertion of lines 308-309 (and 244-245, 273-274).
ClusterCountInRange(N, n_clusters) ==
    n_clusters >= Cardinality(DOMAIN N) /\ n_clusters <= SumOver(DOMAIN N, N)

\* Variant without the assertions on the weight sums.
WeightsUnchecked(weights) == TRUE

\* assert total_country <= 1.0 (lines 254, 282) and assert total_tso <= 1.0
\* (line 286).
WeightsWithinOne(weights) == FracLeq(WeightTotal(weights), <<1, 1>>)

\* Lines 239-316: the assertions and the shares L, up to the point where the
\* program is built.  raised = "" when no assertion failed and no lookup raised.
PrepareShares(d) ==
    LET sum_checked(L) == IF IsCloseToOne(FracSum(DOMAIN L, L)) THEN "" ELSE "L_sum"
    IN  IF d.country_weights = None /\ d.tso_weights # None
        THEN [raised |-> "tso_without_country", L |-> <<>>]
        ELSE IF ~ClusterCountInRange(d.N, d.n_clusters)
        THEN [raised |-> "n_clusters", L |-> <<>>]
        ELSE IF d.country_weights = None
        THEN [raised |-> sum_checked(DefaultShares(d.load)), L |-> DefaultShares(d.load)]
        ELSE IF ~WeightsWithinOne(d.country_weights)
        THEN [raised |-> "country_total", L |-> <<>>]
        ELSE IF d.tso_weights = None
        THEN LET r == CountryWeightedShares(d.load, d.country_weights)
             IN  IF r.key_error THEN [raised |-> "KeyError", L |-> <<>>]
                 ELSE [raised |-> sum_checked(r.L), L |-> r.L]
        ELSE IF \E c \in DOMAIN d.tso_weights : ~WeightsWithinOne(d.tso_weights[c])
        THEN [raised |-> "tso_total", L |-> <<>>]
        ELSE LET r == TsoWeightedShares(d.load, d.country_weights, d.tso_weights,
                                        d.writes_through)
             IN  IF r.key_error THEN [raised |-> "KeyError", L |-> <<>>]
                 ELSE IF sum_checked(r.L) # "" THEN [raised |-> "L_sum", L |-> r.L]
                 ELSE IF r.enlarged THEN [raised |-> "KeyError", L |-> r.L]
                 ELSE [raised |-> "", L |-> r.L]

\* One call of distribute_clusters (lines 237-334).
DistributeClusters ==
    /\ dc.pc = "distribute_clusters"
    /\ \E prep \in {PrepareShares(dc)} :
           IF prep.raised # ""
           THEN dc' = [dc EXCEPT !.pc = "error", !.raised = prep.raised, !.L = prep.L]
           ELSE IF FeasibleAllocations(dc.N, DOMAIN dc.load, dc.n_clusters) = {}
           THEN dc' = [dc EXCEPT !.pc = "error", !.raised = "solver_status", !.L = prep.L,
                                 !.solver_called = TRUE,
                                 !.outcome = [status |-> "warning", termination |-> "infeasible"]]
           ELSE \E outcome \in SolverOutcomes :
                  IF outcome.status # "ok"
                  THEN dc' = [dc EXCEPT !.pc = "error", !.raised = "solver_status",
                                        !.L = prep.L, !.solver_called = TRUE,
                                        !.outcome = outcome]
                  ELSE \E a \in IF outcome.termination = "optimal"
                                THEN SolverResults(dc.N, ShareNumerators(prep.L), dc.n_clusters,
                                                   dc.quadratic_objective)
                                ELSE FeasibleAllocations(dc.N, DOMAIN dc.load, dc.n_clusters) :
                          dc' = [dc EXCEPT !.pc = "done", !.L = prep.L, !.solver_called = TRUE,
                                           !.outcome = outcome, !.result = a]
    /\ UNCHANGED <<simplifyVars, bm, sr, cl>>

\* The state of a call of distribute_clusters that has not run yet.
CallOfDistributeClusters(N, load, n_clusters, quadratic_objective, country_weights, tso_weights, writes_through) ==
    [pc |-> "distribute_clusters", N |-> N, load |-> load, n_clusters |-> n_clusters,
     quadratic_objective |-> quadratic_objective,
     country_weights |-> country_weights, tso_weights |-> tso_weights,
     writes_through |-> writes_through,
     L |-> <<>>, raised |-> "", solver_called |-> FALSE, outcome |-> NoOutcome,
     result |-> <<>>]

SimplifyIdle ==
    /\ pc = "idle"
    /\ n_in = EmptyNetwork
    /\ n = EmptyNetwork
    /\ trafo_map = <<>>
    /\ simplify_links_map = <<>>
    /\ stub_map = <<>>
    /\ busmap_s = <<>>
    /\ stubs = NoStubs
    /\ out = NoOutput

AllocInit ==
    /\ SimplifyIdle
    /\ sr = SrIdle
    /\ cl = ClIdle
    /\ bm = BmIdle
    /\ \E index \in SUBSET PartitionKeys \ {{}}, quadratic_objective \in BOOLEAN :
        \E N \in [index -> 1..MaxBusesPerPartition], load \in [index -> 0..MaxLoad] :
            \E n_clusters \in 1..(SumOver(index, N) + 1) :
                dc = CallOfDistributeClusters(N, load, n_clusters, quadratic_objective,
                                              None, None, TRUE)

AllocNext == DistributeClusters

SpecAlloc == AllocInit /\ [][AllocNext]_vars

\* The weights of the configuration (country_weights, tso_weights of
\* config.yaml) that the weighted calls are drawn from.
WeightChoices == {<<1, 4>>, <<1, 1>>}

TsoWeightChoices == {<<1, 2>>, <<1, 1>>}

\* The dicts with keys among S and values among W (not the empty dict).
WeightDicts(S, W) == UNION {[C -> W] : C \in SUBSET S \ {{}}}

CountryWeightDicts == WeightDicts({p[1] : p \in PartitionKeys}, WeightChoices)

TsoWeightDicts ==
    {c :> t : c \in {p[1] : p \in PartitionKeys},
              t \in WeightDicts({p[2] : p \in PartitionKeys}, TsoWeightChoices)}

\* The number of buses of every partition of a weighted call.
WeightedSizes == {1, 2}

\* Calls in all three weighting modes; the second level of a partition key is
\* the sub-network, or the TSO when tso_weights are given.
WeightsInit ==
    /\ SimplifyIdle
    /\ sr = SrIdle
    /\ cl = ClIdle
    /\ bm = BmIdle
    /\ \E index \in SUBSET PartitionKeys \ {{}},
          country_weights \in {None} \cup CountryWeightDicts,
          tso_weights \in {None} \cup TsoWeightDicts :
        \E size \in WeightedSizes, load \in [index -> 0..MaxLoad],
           writes_through \in IF tso_weights = None \/ country_weights = None
                              THEN {TRUE} ELSE BOOLEAN :
            \E n_clusters \in (Cardinality(index) - 1)..(size * Cardinality(index) + 1) :
                dc = CallOfDistributeClusters([p \in index |-> size], load, n_clusters, TRUE,
                                              country_weights, tso_weights, writes_through)

SpecWeights == WeightsInit /\ [][AllocNext]_vars

-----------------------------------------------------------------------------
(* Bus-to-cluster assignment: scripts/cluster_network.py, busmap_for_n_clusters *)

\* Index order of n.buses of the network to cluster.
ClusterBusIndex == <<"1", "2", "3", "4", "5">>

ClusterBuses == Range(ClusterBusIndex)

\* Index order of n.lines of the network to cluster.
ClusterLineIndex == <<"L35", "L45", "L12", "L34", "L23">>

ClusterLineCandidates ==
    [ L35 |-> [bus0 |-> "3", bus1 |-> "5"],
      L45 |-> [bus0 |-> "4", bus1 |-> "5"],
      L12 |-> [bus0 |-> "1", bus1 |-> "2"],
      L34 |-> [bus0 |-> "3", bus1 |-> "4"],
      L23 |-> [bus0 |-> "2", bus1 |-> "3"] ]

\* n.buses.country of the network to cluster.
CountryAssignments ==
    { [b \in ClusterBuses |-> IF b = "5" THEN "FR" ELSE "DE"],
      [b \in ClusterBuses |-> IF b \in {"1", "2"} THEN "DE" ELSE "FR"],
      [b \in ClusterBuses |-> IF b = "1" THEN "D" ELSE IF b = "2" THEN "DE" ELSE "FR"] }

\* The bus-to-TSO table of filepaths.input.tso_busmap; NaN for a bus without a
\* row.
TsoTables ==
    { [b \in ClusterBuses |-> "0"],
      [b \in ClusterBuses |-> IF b = "1" THEN "E0" ELSE "0"],
      [b \in ClusterBuses |-> IF b = "3" THEN NaN ELSE "0"],
      [b \in ClusterBuses |-> IF b = "3" THEN NaN ELSE IF b \in {"1", "4"} THEN "0" ELSE "1"] }

\* n.loads_t.p_set.mean().groupby(n.loads.bus).sum(): the mean load of every
\* bus that has a load.  Either every bus has one, or the buses 4 and 5 have
\* none.
ClusterLoads ==
    { [b \in ClusterBuses |-> 1],
      [b \in ClusterBuses \ {"4", "5"} |-> 1] }

\* config['clustering']['cluster_network']['algorithm']
Algorithms == {"kmeans", "hac", "modularity", "louvain"}

\* (country_weights, tso_weights) of the configuration.
ClusterWeightConfigs ==
    { <<None, None>>,
      <<[FR |-> <<1, 4>>], None>>,
      <<[FR |-> <<1, 4>>], [FR |-> ("0" :> <<1, 1>>)]>> }

\* The buses of S that a line of the network joins to a bus of seen, lines
\* with both ends in S only, added to seen until nothing is added.
RECURSIVE ComponentOf(_, _, _)
ComponentOf(lines, S, seen) ==
    LET more == {v \in S \ seen :
                    \E l \in lines, u \in seen : Joins(ClusterLineCandidates[l], u, v)}
    IN  IF more = {} THEN seen ELSE ComponentOf(lines, S, seen \cup more)

\* csgraph.connected_components on the adjacency matrix of the buses S.
ConnectedComponents(lines, S) == {ComponentOf(lines, S, {u}) : u \in S}

FirstInIndex(index, S) ==
    index[Min({i \in 1..Len(index) : index[i] \in S})]

\* n.buses.country.unique(): the countries in the order of their first bus.
UniqueCountries(buses) ==
    LET first(c) == Min({i \in 1..Len(ClusterBusIndex) : buses[ClusterBusIndex[i]].country = c})
        cs == {buses[b].country : b \in DOMAIN buses}
    IN  [k \in 1..Cardinality(cs) |->
            CHOOSE c \in cs : Cardinality({d \in cs : first(d) < first(c)}) = k - 1]

\* component_sizes.index[-1]: a component of the smallest size (value_counts
\* leaves the order of components of equal size open).
SmallestComponents(comps) ==
    {c \in comps : \A d \in comps : Cardinality(c) <= Cardinality(d)}

\* The loop body of fix_country_assignment_for_hac for one component: the
\* first bus of the component takes the other country of the first line of
\* n.lines that touches it; .iloc[0] and [0] raise IndexError when there is no
\* such line or no other country.
RehomeFirstBus(buses, lines, country, component) ==
    LET disconnected_bus == FirstInIndex(ClusterBusIndex, component)
        touching == {i \in 1..Len(ClusterLineIndex) :
                        /\ ClusterLineIndex[i] \in lines
                        /\ \/ ClusterLineCandidates[ClusterLineIndex[i]].bus0 = disconnected_bus
                           \/ ClusterLineCandidates[ClusterLineIndex[i]].bus1 = disconnected_bus}
        neighbor_bus == ClusterLineCandidates[ClusterLineIndex[Min(touching)]]
        new_country == {buses[neighbor_bus.bus0].country, buses[neighbor_bus.bus1].country} \ {country}
    IN  IF touching = {} \/ new_country = {}
        THEN [raised |-> "IndexError", buses |-> buses]
        ELSE [raised |-> "",
              buses |-> [buses EXCEPT ![disconnected_bus].country = CHOOSE c \in new_country : TRUE]]

\* fix_country_assignment_for_hac from the i-th country on: the set of the
\* outcomes it can have.
RECURSIVE fix_country_assignment_for_hac(_, _, _, _)
fix_country_assignment_for_hac(buses, lines, countries, i) ==
    IF i > Len(countries) THEN {[raised |-> "", buses |-> buses]}
    ELSE LET country == countries[i]
             m == {b \in DOMAIN buses : buses[b].country = country}
             comps == ConnectedComponents(lines, m)
         IN  IF Cardinality(comps) <= 1
             THEN fix_country_assignment_for_hac(buses, lines, countries, i + 1)
             ELSE UNION {LET r == RehomeFirstBus(buses, lines, country, c)
                         IN  IF r.raised # "" THEN {r}
                             ELSE fix_country_assignment_for_hac(r.buses, lines, countries, i + 1) :
                         c \in SmallestComponents(comps)}

\* Names of sub-networks and of clusters: '0', '1', ...
Digits == <<"0", "1", "2", "3", "4">>

\* n.determine_network_topology(): the sub_network of a bus is the number of
\* its connected component, components counted in the order of their first
\* bus.
SubNetwork(lines, b) ==
    LET comps == ConnectedComponents(lines, ClusterBuses)
        first(c) == Min({i \in 1..Len(ClusterBusIndex) : ClusterBusIndex[i] \in c})
        mine == CHOOSE c \in comps : b \in c
    IN  Digits[Cardinality({c \in comps : first(c) < first(mine)}) + 1]

\* The groupby key of a bus: (country, tso) with TSO weights, (country,
\* sub_network) without.
GroupKey(call, b) ==
    IF call.tso_weights # None
    THEN <<call.buses[b].country, call.buses[b].tso>>
    ELSE <<call.buses[b].country, call.buses[b].sub_network>>

GroupKeys(call) == {GroupKey(call, b) : b \in DOMAIN call.buses}

Group(call, key) == {b \in DOMAIN call.buses : GroupKey(call, b) = key}

\* prefix = x.name[0] + x.name[1] + ' '
Prefix(key) == key[1] \o key[2] \o " "

\* What busmap_by_kmeans, busmap_by_hac and busmap_by_greedy_modularity return
\* for the buses x and n_clusters clusters: every bus gets one of the names
\* '0' .. 'n_clusters - 1' and every name is used.
ClusterNames(x, n_clusters) ==
    {f \in [x -> {Digits[k] : k \in 1..n_clusters}] :
        Range(f) = {Digits[k] : k \in 1..n_clusters}}

\* busmap_for_country for the group x.name = key: the labels it can return,
\* or ValueError, or the KeyError of cluster_distribution[x.name] for a group
\* that cluster_distribution has no entry for.
busmap_for_country(call, key, cluster_distribution) ==
    LET x == Group(call, key)
    IN  IF Cardinality(x) = 1
        THEN [raised |-> "", labels |-> {[b \in x |-> Prefix(key) \o "0"]}]
        ELSE IF call.algorithm \notin {"kmeans", "hac", "modularity"}
        THEN [raised |-> "ValueError", labels |-> {}]
        ELSE IF key \notin DOMAIN cluster_distribution
        THEN [raised |-> "KeyError", labels |-> {}]
        ELSE [raised |-> "",
              labels |-> {[b \in x |-> Prefix(key) \o f[b]] :
                            f \in ClusterNames(x, cluster_distribution[key])}]

\* n.buses.groupby(...).apply(busmap_for_country): the results for the groups
\* keys put together, all the ways the clustering algorithm allows.
RECURSIVE GroupbyApply(_, _, _)
GroupbyApply(call, keys, cluster_distribution) ==
    IF keys = {} THEN {<<>>}
    ELSE LET key == CHOOSE k \in keys : TRUE
             rest == GroupbyApply(call, keys \ {key}, cluster_distribution)
         IN  {f @@ g : f \in busmap_for_country(call, key, cluster_distribution).labels,
                       g \in rest}

\* The state of a call of busmap_for_n_clusters that has not run yet.
CallOfBusmapForNClusters(country, lines, load, tso_busmap, algorithm, n_clusters, weights) ==
    [pc |-> "busmap_for_n_clusters",
     buses |-> [b \in ClusterBuses |-> [country |-> country[b], sub_network |-> "", tso |-> NaN]],
     lines |-> lines, load |-> load, tso_busmap |-> tso_busmap, algorithm |-> algorithm,
     n_clusters |-> n_clusters, country_weights |-> weights[1], tso_weights |-> weights[2],
     busmap |-> <<>>, raised |-> ""]

\* Lines 378-380: with algorithm "hac" the countries of disconnected buses
\* are overwritten first.
FixCountryAssignmentForHac ==
    /\ bm.pc = "busmap_for_n_clusters"
    /\ bm.algorithm = "hac"
    /\ \E r \in fix_country_assignment_for_hac(bm.buses, bm.lines, UniqueCountries(bm.buses), 1) :
          bm' = IF r.raised # ""
                THEN [bm EXCEPT !.pc = "error", !.raised = r.raised]
                ELSE [bm EXCEPT !.pc = "determine_network_topology", !.buses = r.buses]
    /\ UNCHANGED <<simplifyVars, dc, sr, cl>>

\* n.buses has the column tso: the TSO table has been merged into it.
HasTsoColumn(buses) == \E b \in DOMAIN buses : buses[b].tso # NaN

\* Lines 382-385 and the head of distribute_clusters (lines 242, 247-250,
\* 266-279): the sub-networks are determined, with TSO weights n.buses is
\* replaced by its inner join with the TSO table, the group sizes N are taken
\* from n.buses, and the loads of the buses that have one are summed group
\* by group: a group without such a bus has no entry.
CallDistributeClusters ==
    /\ \/ bm.pc = "busmap_for_n_clusters" /\ bm.algorithm # "hac"
       \/ bm.pc = "determine_network_topology"
    /\ ~(bm.tso_weights # None /\ HasTsoColumn(bm.buses))
    /\ \E topo \in {[b \in DOMAIN bm.buses |->
                       [bm.buses[b] EXCEPT !.sub_network = SubNetwork(bm.lines, b)]]} :
       \E merged \in {IF bm.tso_weights # None
                      THEN [b \in {b \in DOMAIN topo : bm.tso_busmap[b] # NaN} |->
                               [topo[b] EXCEPT !.tso = bm.tso_busmap[b]]]
                      ELSE topo} :
       LET call == [bm EXCEPT !.buses = merged]
           N == [key \in GroupKeys(call) |-> Cardinality(Group(call, key))]
           loaded(key) == Group(call, key) \cap DOMAIN bm.load
           load == [key \in {k \in GroupKeys(call) : loaded(k) # {}} |->
                       SumOver(loaded(key), bm.load)]
       IN  /\ bm' = [call EXCEPT !.pc = "distribute_clusters"]
           /\ \E writes_through \in IF bm.tso_weights # None THEN BOOLEAN ELSE {TRUE} :
                 dc' = CallOfDistributeClusters(N, load, bm.n_clusters, TRUE, bm.country_weights,
                                                bm.tso_weights, writes_through)
    /\ UNCHANGED <<simplifyVars, sr, cl>>

\* Lines 269-271 for an n.buses that has the column tso already: the merge
\* names the two columns tso_x and tso_y, and groupby(['country', 'tso'])
\* raises KeyError.
MergeTsoTableAgain ==
    /\ \/ bm.pc = "busmap_for_n_clusters" /\ bm.algorithm # "hac"
       \/ bm.pc = "determine_network_topology"
    /\ bm.tso_weights # None /\ HasTsoColumn(bm.buses)
    /\ bm' = [bm EXCEPT !.pc = "error", !.raised = "KeyError"]
    /\ UNCHANGED <<simplifyVars, dc, sr, cl>>

\* Lines 387-409: once distribute_clusters has returned, busmap_for_country is
\* applied to every group of n.buses; an error of distribute_clusters ends the
\* call.
BusmapForCountry ==
    /\ bm.pc = "distribute_clusters"
    /\ dc.pc \in {"done", "error"}
    /\ IF dc.pc = "error"
       THEN bm' = [bm EXCEPT !.pc = "error", !.raised = dc.raised]
       ELSE IF \E key \in GroupKeys(bm) : busmap_for_country(bm, key, dc.result).raised # ""
       THEN \E key \in GroupKeys(bm) :
               /\ busmap_for_country(bm, key, dc.result).raised # ""
               /\ bm' = [bm EXCEPT !.pc = "error",
                                   !.raised = busmap_for_country(bm, key, dc.result).raised]
       ELSE \E result \in GroupbyApply(bm, GroupKeys(bm), dc.result) :
               bm' = [bm EXCEPT !.pc = "done", !.busmap = result]
    /\ UNCHANGED <<simplifyVars, dc, sr, cl>>

\* The calls of busmap_for_n_clusters: clustering_for_n_clusters is reached
\* from __main__ only with n_clusters # len(n.buses) (line 490).
ClusterInit ==
    /\ SimplifyIdle
    /\ sr = SrIdle
    /\ cl = ClIdle
    /\ dc = DcIdle
    /\ \E country \in CountryAssignments, lines \in SUBSET DOMAIN ClusterLineCandidates,
          algorithm \in Algorithms, n_clusters \in 1..(Len(ClusterBusIndex) - 1),
          weights \in ClusterWeightConfigs, load \in ClusterLoads :
          \E tso_busmap \in IF weights[2] # None THEN TsoTables ELSE {[b \in ClusterBuses |-> NaN]} :
             bm = CallOfBusmapForNClusters(country, lines, load, tso_busmap, algorithm, n_clusters, weights)

ClusterNext ==
    \/ FixCountryAssignmentForHac
    \/ CallDistributeClusters
    \/ DistributeClusters
    \/ BusmapForCountry

SpecCluster == ClusterInit /\ [][ClusterNext]_vars

-----------------------------------------------------------------------------
(* The cluster stage: __main__ of cluster_network.py *)

\* config['scenario']['clusters']: one or two different targets out of 2, 3
\* and 5; 5 is the number of buses of the network.
ClusterTargets ==
    {<<a>> : a \in {2, 3, 5}} \cup ({<<a, b>> : a, b \in {2, 3, 5}} \ {<<a, a>> : a \in {2, 3, 5}})

\* The lines of the networks given to the stage.
MainLineSets ==
    {ls \in SUBSET DOMAIN ClusterLineCandidates : Cardinality(ls) >= 4} \cup {{"L12", "L23", "L45"}}

\* The TSO tables given to the stage: those with a row for every bus.
MainTsoTables == {t \in TsoTables : \A b \in ClusterBuses : t[b] # NaN}

\* The files written for one target.
ClusterFiles == {"network", "busmap", "linemap", "regions_onshore", "regions_offshore"}

\* Lines 469-477: the network is loaded and the configuration is read.
\* loaded keeps n.buses as loaded, buses is n.buses as it is now.
CallOfClusterMain(config, targets) ==
    LET loaded == [b \in ClusterBuses |->
                      [country |-> config.country[b], sub_network |-> "", tso |-> NaN]]
    IN  [pc |-> "for", config |-> config, targets |-> targets, i |-> 1,
         loaded |-> loaded, buses |-> loaded, results |-> <<>>]

mainVars == <<pc, n_in, n, trafo_map, simplify_links_map, stub_map, busmap_s, stubs, sr>>

\* Lines 479-518 and, on the fast path, 520-538: the next target is taken.
\* With n_clusters == len(n.buses) nothing is clustered and the files of the
\* target are written; else clustering_for_n_clusters is called with the
\* network n as it is now.
NextTarget ==
    /\ cl.pc = "for"
    /\ cl.i <= Len(cl.targets)
    /\ LET n_clusters == cl.targets[cl.i]
           c == cl.config
       IN  IF n_clusters = Cardinality(DOMAIN cl.buses)
           THEN /\ cl' = [cl EXCEPT !.i = @ + 1, !.results = Append(@, "ok")]
                /\ out' = [out EXCEPT !.clustered = @ \cup {<<f, n_clusters>> : f \in ClusterFiles}]
                /\ UNCHANGED <<dc, bm>>
           ELSE /\ cl' = [cl EXCEPT !.pc = "clustering_for_n_clusters"]
                /\ bm' = [CallOfBusmapForNClusters(c.country, c.lines, c.load, c.tso_busmap,
                                                   c.algorithm, n_clusters, c.weights)
                             EXCEPT !.buses = cl.buses]
                /\ dc' = DcIdle
                /\ out' = out
    /\ UNCHANGED mainVars

\* Lines 518-538: clustering_for_n_clusters has returned, and the files of
\* the target are written, or it has raised, and the stage ends.  n.buses is
\* what the call has made of it.
ClusteringReturns ==
    /\ cl.pc = "clustering_for_n_clusters"
    /\ bm.pc \in {"done", "error"}
    /\ IF bm.pc = "error"
       THEN /\ cl' = [cl EXCEPT !.pc = "error", !.buses = bm.buses,
                                !.results = Append(@, bm.raised)]
            /\ out' = out
       ELSE /\ cl' = [cl EXCEPT !.pc = "for", !.i = @ + 1, !.buses = bm.buses,
                                !.results = Append(@, "ok")]
            /\ out' = [out EXCEPT !.clustered = @ \cup {<<f, cl.targets[cl.i]>> : f \in ClusterFiles}]
    /\ bm' = BmIdle
    /\ dc' = DcIdle
    /\ UNCHANGED mainVars

\* The loop of line 479 has ended.
ClusterMainEnds ==
    /\ cl.pc = "for"
    /\ cl.i > Len(cl.targets)
    /\ cl' = [cl EXCEPT !.pc = "done"]
    /\ UNCHANGED <<mainVars, dc, bm, out>>

ClusterMainInit ==
    /\ SimplifyIdle
    /\ sr = SrIdle
    /\ dc = DcIdle
    /\ bm = BmIdle
    /\ \E country \in CountryAssignments, lines \in MainLineSets,
          algorithm \in {"kmeans", "hac"}, weights \in ClusterWeightConfigs,
          targets \in ClusterTargets :
          \E tso_busmap \in IF weights[2] # None THEN MainTsoTables ELSE {[b \in ClusterBuses |-> NaN]} :
             cl = CallOfClusterMain([country |-> country, lines |-> lines,
                                     load |-> [b \in ClusterBuses |-> 1],
                                     tso_busmap |-> tso_busmap, algorithm |-> algorithm,
                                     weights |-> weights], targets)

ClusterMainNext ==
    \/ NextTarget
    \/ FixCountryAssignmentForHac
    \/ CallDistributeClusters
    \/ MergeTsoTableAgain
    \/ DistributeClusters
    \/ BusmapForCountry
    \/ ClusteringReturns
    \/ ClusterMainEnds

SpecClusterMain == ClusterMainInit /\ [][ClusterMainNext]_vars

\* C27: between two targets, and when the stage has ended, the network is as
\* it was loaded: n.buses has the same buses, the same country for every bus
\* and no column more.
TargetsLeaveNetworkUnchanged ==
    cl.pc \in {"for", "done"} =>
        /\ DOMAIN cl.buses = DOMAIN cl.loaded
        /\ \A b \in DOMAIN cl.buses \cap DOMAIN cl.loaded :
              cl.buses[b].country = cl.loaded[b].country
        /\ ~HasTsoColumn(cl.buses)

-----------------------------------------------------------------------------
(* The pipeline driver: script_runner.py *)

\* The keys of script_dict in the order of lines 50-60, which is the order in
\* which the loop of line 84 takes them.
ScriptNames ==
    <<"build_project_folders.py", "build_shapes.py", "base_network.py",
      "build_bus_regions.py", "build_renewable_profiles.py", "build_hydro_profile.py",
      "build_powerplants.py", "add_electricity.py", "simplify_network.py",
      "prepare_tso_busmap.py", "cluster_network.py">>

\* The largest number of scripts that the settings of lines 18-46 switch on.
MaxEnabled == 3

\* The exit codes a script can return: 0, or 1 for a script that failed.
ExitCodes == {0, 1}

\* The state of the driver when the loop of line 84 begins.
\* script_dict[i] tells whether the i-th script is switched on; log is the
\* sequence of the starts and exits of the scripts.
CallOfScriptRunner(enabled) ==
    [pc |-> "for", script_dict |-> [i \in DOMAIN ScriptNames |-> i \in enabled],
     i |-> 1, log |-> <<>>]

\* Lines 85-92: the script is switched on; subprocess.call starts it and
\* waits for it.
StartScript ==
    /\ sr.pc = "for"
    /\ sr.i <= Len(ScriptNames)
    /\ sr.script_dict[sr.i]
    /\ sr' = [sr EXCEPT !.pc = "subprocess.call",
                        !.log = Append(@, <<"start", ScriptNames[sr.i]>>)]
    /\ UNCHANGED <<simplifyVars, dc, bm, cl>>

\* Lines 92-101: the script exits with some exit code; subprocess.call
\* returns it, the driver does not look at it and goes on with the loop.
ScriptExits ==
    /\ sr.pc = "subprocess.call"
    /\ \E code \in ExitCodes :
          sr' = [sr EXCEPT !.pc = "for", !.i = @ + 1,
                           !.log = Append(@, <<"exit", ScriptNames[sr.i], code>>)]
    /\ UNCHANGED <<simplifyVars, dc, bm, cl>>

\* Lines 102-103: the script is switched off.
SkipScript ==
    /\ sr.pc = "for"
    /\ sr.i <= Len(ScriptNames)
    /\ ~sr.script_dict[sr.i]
    /\ sr' = [sr EXCEPT !.i = @ + 1]
    /\ UNCHANGED <<simplifyVars, dc, bm, cl>>

\* Lines 105-113: the loop has ended.
RunnerEnds ==
    /\ sr.pc = "for"
    /\ sr.i > Len(ScriptNames)
    /\ sr' = [sr EXCEPT !.pc = "done"]
    /\ UNCHANGED <<simplifyVars, dc, bm, cl>>

RunnerInit ==
    /\ SimplifyIdle
    /\ dc = DcIdle
    /\ bm = BmIdle
    /\ cl = ClIdle
    /\ \E enabled \in SUBSET DOMAIN ScriptNames :
          /\ Cardinality(enabled) <= MaxEnabled
          /\ sr = CallOfScriptRunner(enabled)

RunnerNext ==
    \/ StartScript
    \/ ScriptExits
    \/ SkipScript
    \/ RunnerEnds

SpecRunner == RunnerInit /\ [][RunnerNext]_vars

\* The place of a script in script_dict.
PlaceOf(scriptname) == CHOOSE i \in DOMAIN ScriptNames : ScriptNames[i] = scriptname

IsStart(e) == e[1] = "start"

IsFailure(e) == e[1] = "exit" /\ e[3] # 0

\* C26: the scripts are started in the order of script_dict and only if
\* switched on, a started script exits before the next one is started, and
\* after a script has exited with an error no script is started.
ScriptsRunInOrderUntilFailure ==
    sr.pc # "idle" =>
        \A p, q \in 1..Len(sr.log) :
            /\ IsStart(sr.log[p]) => sr.script_dict[PlaceOf(sr.log[p][2])]
            /\ IsStart(sr.log[p]) /\ p < Len(sr.log) =>
                  sr.log[p + 1][1] = "exit" /\ sr.log[p + 1][2] = sr.log[p][2]
            /\ p < q /\ IsStart(sr.log[p]) /\ IsStart(sr.log[q]) =>
                  PlaceOf(sr.log[p][2]) < PlaceOf(sr.log[q][2])
            /\ p < q /\ IsFailure(sr.log[p]) => ~IsStart(sr.log[q])




-----------------------------------------------------------------------------
(* Properties of distribute_clusters *)

\* C1: the allocation distribute_clusters returns has one integer per
\* partition, the integers sum to n_clusters exactly, and each lies between 1
\* and the number of buses of its partition -- with either kind of solver.
AllocationSumsToTotalWithinBounds ==
    dc.pc = "done" =>
        /\ DOMAIN dc.result = DOMAIN dc.N
        /\ SumOver(DOMAIN dc.result, dc.result) = dc.n_clusters
        /\ \A i \in DOMAIN dc.result : 1 <= dc.result[i] /\ dc.result[i] <= dc.N[i]

\* C2: the allocation returned after the solver reported an optimal solution
\* is feasible and no feasible integer allocation has a strictly smaller
\* value of sum (n_p - L_p * K)^2.
AllocationMinimizesObjective ==
    dc.pc = "done" /\ dc.outcome.termination = "optimal" =>
        /\ dc.result \in FeasibleAllocations(dc.N, DOMAIN dc.load, dc.n_clusters)
        /\ \A o \in FeasibleAllocations(dc.N, DOMAIN dc.load, dc.n_clusters) :
              Objective(dc.load, dc.n_clusters, dc.result) <= Objective(dc.load, dc.n_clusters, o)

Returned == dc.pc # "distribute_clusters"

CountryMode == dc.country_weights # None /\ dc.tso_weights = None

TsoMode == dc.country_weights # None /\ dc.tso_weights # None

\* The rows p and q of L are in proportion to their loads.
InLoadProportion(p, q) ==
    FracMul(dc.L[p], <<dc.load[q], 1>>) = FracMul(dc.L[q], <<dc.load[p], 1>>)

NamedTsosExist ==
    \A c \in DOMAIN dc.tso_weights :
        \A t \in DOMAIN dc.tso_weights[c] : <<c, t>> \in DOMAIN dc.load

\* C13: with country and TSO weights that name existing TSOs, once the
\* weighting has been applied, for every country with a weight c and TSO weights t: every named TSO has the
\* share c * t, the unnamed TSOs of the country share c * (1 - sum t) in
\* proportion to their loads, and the shares of the country sum to c.
TsoWeightsGiveShares ==
    Returned /\ TsoMode /\ dc.L # <<>> /\ NamedTsosExist =>
        \A c \in DOMAIN dc.country_weights \cap DOMAIN dc.tso_weights :
            LET weights == dc.tso_weights[c]
                rows == CountryRows(DOMAIN dc.load, c)
                unnamed == {p \in rows : p[2] \notin DOMAIN weights}
                residual == FracMul(dc.country_weights[c], OneMinus(WeightTotal(weights)))
                split == normed(unnamed, [p \in unnamed |-> <<dc.load[p], 1>>])
            IN  /\ \A p \in rows \ unnamed :
                      dc.L[p] = FracMul(dc.country_weights[c], weights[p[2]])
                /\ \A p \in unnamed : dc.L[p] = FracMul(residual, split[p])
                /\ unnamed = {} \/ FracSum(unnamed, split) = <<1, 1>>
                      => FracSum(rows, dc.L) = dc.country_weights[c]

\* C14: a call with a cluster count below the number of partitions or above
\* the number of buses ends in an error, in every weighting mode; the solver
\* has not been called and no allocation exists.
ClusterCountOutOfRangeAborts ==
    /\ Returned
    /\ \/ dc.n_clusters < Cardinality(DOMAIN dc.N)
       \/ dc.n_clusters > SumOver(DOMAIN dc.N, dc.N)
    => /\ dc.pc = "error"
       /\ ~dc.solver_called
       /\ dc.result = <<>>

\* C14 witness: with country and TSO weights, one cluster more than there are
\* buses was asked for and the assertion on the cluster count fired.
TooManyClustersRejected ==
    /\ dc.pc = "error"
    /\ TsoMode
    /\ dc.raised = "n_clusters"
    /\ dc.n_clusters = SumOver(DOMAIN dc.N, dc.N) + 1

InvalidWeights ==
    \/ dc.country_weights = None /\ dc.tso_weights # None
    \/ dc.country_weights # None /\ ~FracLeq(WeightTotal(dc.country_weights), <<1, 1>>)
    \/ \E c \in DOMAIN dc.tso_weights : ~FracLeq(WeightTotal(dc.tso_weights[c]), <<1, 1>>)

\* C15: a call with an invalid weight configuration (country weights that sum
\* to more than 1, TSO weights of a country that sum to more than 1, TSO
\* weights without country weights) ends in an error at one of the assertions
\* that precede the weighting: no share has been computed, the solver has not
\* been called and no allocation exists.
InvalidWeightsAbort ==
    Returned /\ InvalidWeights =>
        /\ dc.pc = "error"
        /\ dc.raised \in {"tso_without_country", "n_clusters", "country_total", "tso_total"}
        /\ dc.L = <<>>
        /\ ~dc.solver_called
        /\ dc.result = <<>>

\* C15 witness: the TSO weights of a country sum to more than 1 while the
\* country weights and the cluster count are in order.
TsoWeightsAboveOneRejected ==
    /\ dc.pc = "error"
    /\ dc.raised = "tso_total"
    /\ FracLeq(WeightTotal(dc.country_weights), <<1, 1>>)

\* C16: an allocation is returned only if the solver reported an optimal
\* solution.
AllocationOnlyFromOptimalSolve ==
    dc.pc = "done" =>
        dc.outcome = [status |-> "ok", termination |-> "optimal"]

\* C17: in a busmap that busmap_for_n_clusters returns, two buses of
\* different groups ((country, sub_network) or (country, tso) keys) never
\* have the same label.
LabelsUniqueAcrossPartitions ==
    bm.pc = "done" =>
        \A a, b \in DOMAIN bm.busmap :
            GroupKey(bm, a) # GroupKey(bm, b) => bm.busmap[a] # bm.busmap[b]

\* C18: a busmap that busmap_for_n_clusters returns has a label for every bus
\* of the network the call was given, in every weighting mode; with one
\* cluster for a single group all buses have the same label.
BusmapLabelsEveryBus ==
    bm.pc = "done" =>
        /\ DOMAIN bm.busmap = ClusterBuses
        /\ bm.n_clusters = 1 => \A a, b \in DOMAIN bm.busmap : bm.busmap[a] = bm.busmap[b]

\* C19: a call of busmap_for_n_clusters with an algorithm other than
\* 'kmeans', 'hac' and 'modularity' ends in an error and returns no busmap.
UnknownAlgorithmAborts ==
    bm.pc \in {"done", "error"} /\ bm.algorithm \notin {"kmeans", "hac", "modularity"} =>
        bm.pc = "error" /\ bm.busmap = <<>>

\* C20: when fix_country_assignment_for_hac has returned, the buses of every
\* country form one connected component of the lines within the country.
CountriesConnectedAfterFix ==
    bm.pc = "determine_network_topology" =>
        \A c \in {bm.buses[b].country : b \in DOMAIN bm.buses} :
            Cardinality(ConnectedComponents(bm.lines,
                            {b \in DOMAIN bm.buses : bm.buses[b].country = c})) = 1

\* C28: the allocation that distribute_clusters returns has an entry for
\* every group of n.buses, and the busmap that busmap_for_n_clusters returns
\* has as many distinct labels as clusters were asked for.
AllocationCoversEveryPartition ==
    /\ bm.pc \in {"distribute_clusters", "done", "error"} /\ dc.pc = "done" =>
          GroupKeys(bm) \subseteq DOMAIN dc.result
    /\ bm.pc = "done" => Cardinality(Range(bm.busmap)) = bm.n_clusters

\* C21: a call on the HAC path never ends in fix_country_assignment_for_hac:
\* whatever components the countries have, the function returns.
FixCountryAssignmentNeverRaises ==
    bm.algorithm = "hac" /\ bm.pc = "error" => bm.raised # "IndexError"

-----------------------------------------------------------------------------
(* Properties of the simplify stage *)

AfterVoltageUnification == pc = "simplify_links"

AfterLinkFolding == pc = "remove_stubs"

AfterStubRemoval == pc = "export"

AfterReductionStep == AfterVoltageUnification \/ AfterLinkFolding \/ AfterStubRemoval

\* The network that simplify_links is given: the input after voltage unification.
LinkFoldingInput == simplify_network_to_380(n_in).n

\* The DC chains of a network that start with the buses of p: sequences of
\* distinct buses, each joined to the next by at least one link, that run
\* through buses that are no supernodes and end at a supernode.
RECURSIVE ChainsFrom(_, _, _)
ChainsFrom(net, supernodes, p) ==
    LET last == p[Len(p)]
    IN  IF Len(p) = 2 /\ (p[1] = p[2] \/ LinksBetween(net, p[1], p[2]) = {}) THEN {}
        ELSE IF last \in supernodes
        THEN IF Len(p) >= 3 THEN {p} ELSE {}
        ELSE UNION {ChainsFrom(net, supernodes, Append(p, m)) :
                      m \in {m \in DOMAIN net.buses \ Range(p) : LinksBetween(net, last, m) # {}}}

DCChains(net) ==
    UNION {UNION {ChainsFrom(net, Supernodes(net, c), <<u, m>>) :
                    u \in Supernodes(net, c), m \in c} :
            c \in BigComponents(net)}

SegmentLinks(net, p, i) == LinksBetween(net, p[i], p[i + 1])

ChainLinkNames(net, p) == UNION {SegmentLinks(net, p, i) : i \in 1..(Len(p) - 1)}

\* C3: after link folding, for every DC chain of three or more buses between
\* two boundary buses u and v of the network given to simplify_links: none of
\* the chain's links is left, none of its interior buses is left, and exactly
\* one synthesized link stands for the chain; it joins u and v, its length is
\* the sum over the segments of the mean length of the segment's parallel
\* links, and its p_nom is the smallest segment capacity (the sum of p_nom of
\* the segment's parallel links).
LinkFoldingReplacesChains ==
    AfterLinkFolding =>
        LET before == LinkFoldingInput
        IN  \A p \in DCChains(before) :
                LET names == ChainLinkNames(before, p)
                    new == {k \in DOMAIN n.links : k[2] > 0 /\ <<k[1], 0>> \in names}
                IN  /\ names \cap DOMAIN n.links = {}
                    /\ \A i \in 2..(Len(p) - 1) : p[i] \notin DOMAIN n.buses
                    /\ Cardinality(new) = 1
                    /\ \A k \in new :
                        /\ Joins(n.links[k], p[1], p[Len(p)])
                        /\ n.links[k].length =
                              SumOver(1..(Len(p) - 1), [i \in 1..(Len(p) - 1) |->
                                  SumOver(SegmentLinks(before, p, i),
                                          [j \in SegmentLinks(before, p, i) |-> before.links[j].length])
                                      \div Cardinality(SegmentLinks(before, p, i))])
                        /\ \E i \in 1..(Len(p) - 1) :
                              n.links[k].p_nom = SumPNom(before.links, SegmentLinks(before, p, i))
                        /\ \A i \in 1..(Len(p) - 1) :
                              n.links[k].p_nom <= SumPNom(before.links, SegmentLinks(before, p, i))

\* C3 witness: the four-bus chain A-B-C-D between the boundary buses A and D,
\* with two parallel links on one segment, has been folded.
FourBusChainFolded ==
    /\ AfterLinkFolding
    /\ <<"A", "B", "C", "D">> \in DCChains(LinkFoldingInput)
    /\ Cardinality(LinksBetween(LinkFoldingInput, "B", "C")) = 2
    /\ \E k \in DOMAIN n.links : k[2] = 2 /\ Joins(n.links[k], "A", "D")

\* The DC chains that end in a dead end instead of a supernode: from a
\* supernode through buses that are no supernodes to a bus from which no link
\* leads to a bus off the chain.
RECURSIVE DeadEndChainsFrom(_, _, _)
DeadEndChainsFrom(net, supernodes, p) ==
    LET last == p[Len(p)]
        onward == {m \in DOMAIN net.buses \ Range(p) : LinksBetween(net, last, m) # {}}
    IN  IF Len(p) = 2 /\ (p[1] = p[2] \/ LinksBetween(net, p[1], p[2]) = {}) THEN {}
        ELSE IF last \in supernodes THEN {}
        ELSE IF onward = {}
        THEN IF Len(p) >= 3 /\ LinksBetween(net, last, p[1]) = {} THEN {p} ELSE {}
        ELSE UNION {DeadEndChainsFrom(net, supernodes, Append(p, m)) : m \in onward}

DeadEndChains(net) ==
    UNION {UNION {DeadEndChainsFrom(net, Supernodes(net, c), <<u, m>>) :
                    u \in Supernodes(net, c), m \in c} :
            c \in BigComponents(net)}

\* C22: after link folding, for every DC chain of three or more buses of the
\* network given to simplify_links (between two supernodes, or from a
\* supernode to a dead end): the busmap maps the two boundary buses to
\* themselves and every interior bus to a boundary bus of the chain than which
\* the other boundary bus is not nearer on (x, y).
InteriorBusesMapToNearestBoundary ==
    AfterLinkFolding =>
        \A p \in DCChains(LinkFoldingInput) \cup DeadEndChains(LinkFoldingInput) :
            LET u == p[1]
                v == p[Len(p)]
            IN  /\ simplify_links_map[u] = u
                /\ simplify_links_map[v] = v
                /\ \A i \in 2..(Len(p) - 1) :
                      \/ /\ simplify_links_map[p[i]] = u
                         /\ SquaredDistance(u, p[i]) <= SquaredDistance(v, p[i])
                      \/ /\ simplify_links_map[p[i]] = v
                         /\ SquaredDistance(v, p[i]) <= SquaredDistance(u, p[i])

\* C22 witness: the chain A-B-C-D has been folded; B went to A and C, which
\* is nearer to D, went to D.
InteriorBusesSplitBetweenBoundaries ==
    /\ AfterLinkFolding
    /\ <<"A", "B", "C", "D">> \in DCChains(LinkFoldingInput)
    /\ simplify_links_map["B"] = "A"
    /\ simplify_links_map["C"] = "D"

\* What link folding has added to the capital cost of generator g of its
\* input.
AddedByLinkFolding(g) ==
    LET tech == LinkFoldingInput.generators[g].carrier
        costs == IF out.added = <<>> THEN <<>> ELSE out.added[1]
    IN  IF tech \in DOMAIN costs /\ g \in DOMAIN costs[tech] THEN costs[tech][g] ELSE 0

\* The cost of the links of the chain p between its i-th and its j-th bus.
CostAlongChain(net, p, i, j) ==
    LET lo == IF i <= j THEN i ELSE j
        hi == IF i <= j THEN j ELSE i
    IN  SumOver(lo..(hi - 1),
                [k \in lo..(hi - 1) |->
                    SumOver(SegmentLinks(net, p, k),
                            [l \in SegmentLinks(net, p, k) |-> net.links[l].length])])

\* C23: after link folding, for every generator of its input: a generator of
\* a renewable technology on a bus that the busmap moves has had the cost of
\* the links of its chain between its bus and the boundary bus it is moved to
\* added to its capital cost, nothing has been subtracted from any capital
\* cost, and nothing has been added for a generator on a bus that stays.
RenewablesPayConnectionCosts ==
    AfterLinkFolding =>
        LET before == LinkFoldingInput
            chains == DCChains(before) \cup DeadEndChains(before)
        IN  \A g \in DOMAIN before.generators :
                LET bus == before.generators[g].bus
                    to == simplify_links_map[bus]
                IN  /\ AddedByLinkFolding(g) >= 0
                    /\ to = bus => AddedByLinkFolding(g) = 0
                    /\ to # bus /\ before.generators[g].carrier \in Renewable =>
                          \E p \in chains : \E i, j \in 1..Len(p) :
                              /\ p[i] = bus /\ p[j] = to /\ j \in {1, Len(p)}
                              /\ AddedByLinkFolding(g) = CostAlongChain(before, p, i, j)

\* The report has the adjustments of the report part: the same cost for the
\* same generator of the same technology.
ReportContains(report, part) ==
    \A tech \in DOMAIN part :
        /\ tech \in DOMAIN report
        /\ \A g \in DOMAIN part[tech] :
              g \in DOMAIN report[tech] /\ report[tech][g] = part[tech][g]

\* C29: when the stage has finished, the connection-cost report on disk
\* contains every adjustment that was made, those of link folding as well as
\* those of stub removal.
ReportKeepsAllAdjustments ==
    pc = "done" =>
        \A i \in 1..Len(out.added) : ReportContains(out.connection_costs, out.added[i])

\* C25: no output file of the simplify stage is written before every
\* computation of the stage has succeeded: a file is on disk only when the
\* stage has finished.
OutputOnlyOnFullSuccess ==
    out.written # {} => pc = "done"

\* The final clusters of the buses that have a polygon in the region file.
ClustersWithPolygon(which) ==
    {busmap_s[b] : b \in out.regions_in[which] \cap DOMAIN busmap_s} \ {NaN}

\* The regions of the written region file that contain the polygon r.
RegionsOf(which, r) == {c \in DOMAIN out.regions[which] : r \in out.regions[which][c]}

\* C24 as stated: each written region file has exactly one region for every
\* final cluster of the composed busmap, two polygons are in the same region
\* exactly if the busmap gives their buses the same cluster, and a busmap
\* with one cluster gives one region.
OneRegionPerFinalCluster ==
    pc = "done" =>
        \A which \in RegionFiles :
            /\ DOMAIN out.regions[which] = Range(busmap_s) \ {NaN}
            /\ \A r1, r2 \in out.regions_in[which] :
                  (\E c \in DOMAIN out.regions[which] : {r1, r2} \subseteq out.regions[which][c])
                      <=> busmap_s[r1] = busmap_s[r2]
            /\ Cardinality(Range(busmap_s)) = 1 => Cardinality(DOMAIN out.regions[which]) = 1

\* C24, amended: each written region file has exactly one region for every
\* final cluster that the composed busmap gives to a bus with a polygon in
\* the file, named by the cluster; every such polygon is in the region of its
\* cluster and in no other, so two of them are in the same region exactly if
\* their buses have the same cluster; and the regions are regions of buses of
\* the final network.
OneRegionPerClusterWithPolygon ==
    pc = "done" =>
        \A which \in RegionFiles :
            /\ Cardinality(DOMAIN out.regions[which]) = Cardinality(ClustersWithPolygon(which))
            /\ \A r \in out.regions_in[which] :
                  r \in DOMAIN busmap_s /\ busmap_s[r] # NaN => RegionsOf(which, r) = {busmap_s[r]}
            /\ \A c \in DOMAIN out.regions[which] :
                  /\ c \in DOMAIN n.buses
                  /\ out.regions[which][c] # {}
                  /\ out.regions[which][c] \subseteq out.regions_in[which]

\* A run in which an onshore region is the union of three polygons, there
\* are several onshore regions, and a final bus has no offshore region.
PolygonsDissolvedIntoRegions ==
    /\ pc = "done"
    /\ \E c \in DOMAIN out.regions["regions_onshore"] :
          Cardinality(out.regions["regions_onshore"][c]) >= 3
    /\ Cardinality(DOMAIN out.regions["regions_onshore"]) >= 2
    /\ DOMAIN n.buses \ DOMAIN out.regions["regions_offshore"] # {}

\* Everything split_links yields in the loop of line 288, component by
\* component.
RECURSIVE YieldedChains(_, _, _, _)
YieldedChains(net, comps, lines_first, order) ==
    IF comps = {} THEN <<>>
    ELSE LET c == CHOOSE c \in comps : TRUE
         IN  split_links(net, c, lines_first, SelectSeq(order, LAMBDA u : u \in c))
                \o YieldedChains(net, comps \ {c}, lines_first, order)

InteriorBuses(chain) == {chain.buses[i] : i \in 2..(Len(chain.buses) - 1)}

YieldedLinks(chain) == UNION {chain.links[i].links : i \in 1..Len(chain.links)}

\* The chain visits no bus twice, so the walk has ended within the buses of
\* the network.
WalkEnded(chain) == Cardinality(Range(chain.buses)) = Len(chain.buses)

\* Every edge the chain was walked along is a link, and nothing but links.
EdgesAreLinks(net, chain) ==
    \A i \in 1..Len(chain.links) :
        /\ chain.links[i].lines = {}
        /\ chain.links[i].links # {}
        /\ chain.links[i].links \subseteq DOMAIN net.links

\* No two of the chains share an interior bus or a link, and no interior bus
\* of one is a bus of another.
ChainsApart(chains) ==
    \A i, j \in 1..Len(chains) :
        i # j => /\ InteriorBuses(chains[i]) \cap Range(chains[j].buses) = {}
                 /\ YieldedLinks(chains[i]) \cap YieldedLinks(chains[j]) = {}

\* simplify_links has run: it has returned, or it has raised.
LinkFoldingRan == pc \in {"remove_stubs", "error"} /\ simplify_links_map # <<>>

\* C30: once simplify_links has run, whatever the iteration orders were:
\* every walk of split_links on its network has ended, no two yielded chains
\* share an interior bus or a link, and every edge of a yielded chain is a
\* link of the network.
SplitLinksYieldsEachChainOnce ==
    LinkFoldingRan =>
        LET before == LinkFoldingInput
        IN  \A lines_first \in BOOLEAN, order \in Orders(AllSupernodes(before)) :
                LET chains == YieldedChains(before, BigComponents(before), lines_first, order)
                IN  /\ \A i \in 1..Len(chains) : WalkEnded(chains[i])
                    /\ ChainsApart(chains)
                    /\ \A i \in 1..Len(chains) : EdgesAreLinks(before, chains[i])

\* The number of branch ends at bus b (a branch from b to b has two).
Degree(net, b) ==
    LET ends(df) == Cardinality({k \in DOMAIN df : df[k].bus0 = b})
                        + Cardinality({k \in DOMAIN df : df[k].bus1 = b})
    IN  ends(net.lines) + ends(net.links) + ends(net.transformers)

\* The buses reached from S without passing directly between a and b.
RECURSIVE ReachWithout(_, _, _, _)
ReachWithout(net, a, b, S) ==
    LET next == S \cup {w \in DOMAIN net.buses :
                          \E x \in S : w \in Adj(net, x) /\ {x, w} # {a, b}}
    IN  IF next = S THEN S ELSE ReachWithout(net, a, b, next)

\* The neighbouring buses a and b lie on a cycle through three or more buses.
OnCycle(net, a, b) ==
    /\ a # b
    /\ b \in Adj(net, a)
    /\ b \in ReachWithout(net, a, b, {a})

StubRemovalReturns == pc = "busmap_by_stubs" /\ pc' = "export"

StubSweepRepeats == pc = "busmap_by_stubs" /\ pc' = "busmap_by_stubs"

LowVoltageSides(net) == {net.transformers[t].bus0 : t \in DOMAIN net.transformers}

\* C5: after voltage unification trafo_map sends every bus to the ultimate
\* target of its transformer chain: no value of the map is the low-voltage
\* side of a transformer of the input network.
TrafoMapReachesUltimateTarget ==
    AfterVoltageUnification =>
        \A b \in DOMAIN trafo_map : trafo_map[b] \notin LowVoltageSides(n_in)

VoltageLevels(net) ==
    {net.buses[b].v_nom : b \in DOMAIN net.buses} \cup {net.lines[l].v_nom : l \in DOMAIN net.lines}

\* C6: after simplify_network_to_380 every bus and every line is at 380 kV,
\* no transformer is left, and the returned busmap has a value for every bus
\* of the input network, the bus itself for every bus that is not the
\* low-voltage side of a transformer.
AllAt380WithBusmap ==
    AfterVoltageUnification =>
        /\ VoltageLevels(n) = {380}
        /\ DOMAIN n.transformers = {}
        /\ DOMAIN trafo_map = DOMAIN n_in.buses
        /\ \A b \in DOMAIN n_in.buses :
              /\ trafo_map[b] # NaN
              /\ trafo_map[b] \in DOMAIN n_in.buses
              /\ b \notin LowVoltageSides(n_in) => trafo_map[b] = b

\* C6 witness: a network with a transformer and a 220 kV line has been unified.
MixedVoltagesUnified ==
    /\ AfterVoltageUnification
    /\ DOMAIN n_in.transformers # {}
    /\ \E l \in DOMAIN n_in.lines : n_in.lines[l].v_nom = 220
    /\ \E b \in DOMAIN trafo_map : trafo_map[b] # b

Branches(net) ==
    {net.lines[l] : l \in DOMAIN net.lines}
        \cup {[bus0 |-> net.links[k].bus0, bus1 |-> net.links[k].bus1] : k \in DOMAIN net.links}
        \cup {net.transformers[t] : t \in DOMAIN net.transformers}

OnePortBuses(net) ==
    {net.generators[g].bus : g \in DOMAIN net.generators}
        \cup {net.loads[l].bus : l \in DOMAIN net.loads}
        \cup {net.storage_units[u].bus : u \in DOMAIN net.storage_units}
        \cup {net.stores[u].bus : u \in DOMAIN net.stores}

\* C7: after each reduction step both ends of every branch and the bus of
\* every one-port component (generators, loads, storage units and stores
\* alike) are buses of the network.
EndpointsExist ==
    AfterReductionStep =>
        /\ \A br \in Branches(n) : br.bus0 \in DOMAIN n.buses /\ br.bus1 \in DOMAIN n.buses
        /\ OnePortBuses(n) \subseteq DOMAIN n.buses

\* C8: after each reduction step no branch runs from a bus to the same bus.
NoSelfLoops ==
    AfterReductionStep => \A br \in Branches(n) : br.bus0 # br.bus1

Totals(net) ==
    [generators |-> SumOver(DOMAIN net.generators,
                            [g \in DOMAIN net.generators |-> net.generators[g].p_nom]),
     storage_units |-> SumOver(DOMAIN net.storage_units,
                               [u \in DOMAIN net.storage_units |-> net.storage_units[u].p_nom]),
     loads |-> SumOver(DOMAIN net.loads, [l \in DOMAIN net.loads |-> net.loads[l].p_set])]

LinkFoldingReturns == pc = "simplify_links" /\ pc' = "remove_stubs"

\* C9: the run of _aggregate_and_move_components that ends link folding and
\* the one that ends stub removal leave the total generator capacity, the
\* total storage-unit capacity and the total load of the network as they were.
TotalsPreserved ==
    [][LinkFoldingReturns \/ StubRemovalReturns => Totals(n') = Totals(n)]_vars

\* C9 witness: link folding and stub removal both moved buses, and generators
\* have been merged on the way.
OnePortsRelocated ==
    /\ AfterStubRemoval
    /\ \E b \in DOMAIN simplify_links_map : simplify_links_map[b] # b
    /\ \E b \in DOMAIN stub_map : stub_map[b] # b
    /\ Cardinality(DOMAIN n.generators) < Cardinality(DOMAIN n_in.generators)
    /\ Cardinality(DOMAIN n.loads) < Cardinality(DOMAIN n_in.loads)

IsIdentity(busmap) == \A b \in DOMAIN busmap : busmap[b] = b

\* C11: a run of _aggregate_and_move_components with the identity busmap (the
\* run that ends stub removal when no bus is a stub) leaves the number of
\* buses, the total generator capacity and the total load of the network as
\* they were.
IdentityBusmapPreservesTotals ==
    [][StubRemovalReturns /\ IsIdentity(stub_map') /\ DOMAIN stub_map' = DOMAIN n.buses =>
          /\ Cardinality(DOMAIN n'.buses) = Cardinality(DOMAIN n.buses)
          /\ Totals(n').generators = Totals(n).generators
          /\ Totals(n').loads = Totals(n).loads]_vars

\* C11 witness: no step has moved a bus, and the run with the identity busmap
\* has merged the two gas generators of bus A into one.
IdentityRunMergedGenerators ==
    /\ AfterStubRemoval
    /\ IsIdentity(stub_map) /\ IsIdentity(simplify_links_map) /\ IsIdentity(trafo_map)
    /\ DOMAIN n.buses = DOMAIN n_in.buses
    /\ Cardinality(DOMAIN n.generators) < Cardinality(DOMAIN n_in.generators)
    /\ Totals(n) = Totals(n_in)

\* C10: the busmap that is written has a value for every bus of the input
\* network, the value is stub_map(simplify_links_map(trafo_map(b))), it is a
\* bus of the final network, and the buses of the final network are exactly
\* the values of the map.
ComposedBusmapCoversFinalNetwork ==
    pc = "done" =>
        /\ DOMAIN busmap_s = DOMAIN n_in.buses
        /\ \A b \in DOMAIN n_in.buses :
              /\ trafo_map[b] \in DOMAIN simplify_links_map
              /\ simplify_links_map[trafo_map[b]] \in DOMAIN stub_map
              /\ busmap_s[b] = stub_map[simplify_links_map[trafo_map[b]]]
              /\ busmap_s[b] # NaN
              /\ busmap_s[b] \in DOMAIN n.buses
        /\ DOMAIN n.buses = Range(busmap_s)

\* C10 witness: the stage has ended after each of the three steps moved a bus.
AllThreeBusmapsComposed ==
    /\ pc = "done"
    /\ \E b \in DOMAIN trafo_map : trafo_map[b] # b
    /\ \E b \in DOMAIN simplify_links_map : simplify_links_map[b] # b
    /\ \E b \in DOMAIN stub_map : stub_map[b] # b
    /\ \E b \in DOMAIN busmap_s : busmap_s[b] \notin {b, trafo_map[b]}

====
